---- MODULE Spec2Model ----
(***************************************************************************)
(* Remote-assist session orchestration of ocbc-vtm-poc.                    *)
(*                                                                         *)
(*  Part I  : the signaling server (packages/signaling-server/src/index.ts)*)
(*            - the session registry, the per-connection handler, the     *)
(*            relay.  Specifications: Spec, SpecDrop, SpecIds.             *)
(*  Part II : the requester's peer session controller                      *)
(*            (src/components/LiveAgent/LiveAgentAssistPanel.tsx).         *)
(*            - the start sequence, the signaling socket, the peer        *)
(*            connection, the pending queue.  Specifications: SpecCtl,     *)
(*            SpecDegraded.                                                *)
(*  Part III: the ticket broker (server/websocket-server.js of the Live    *)
(*            Agent bridge) - POST /api/ticket, the dashboard sockets, the *)
(*            broadcast.  Specification: SpecBroker.                       *)
(*  Part IV : a call - the agent's peer session controller                 *)
(*            (useAgentSession) and the requester's, joined by one session *)
(*            of the signaling server.  Specification: SpecCall.           *)
(*  Part V  : the requester's annotation overlay (the `annotations` state  *)
(*            of LiveAgentAssistPanel.tsx).  Specification: SpecOverlay.   *)
(*  Part VI : the agents' dashboards (useTicketWebSocket, home.tsx) with   *)
(*            the ticket broker.  Specification: SpecDesk.                 *)
(***************************************************************************)
EXTENDS Integers, Sequences, FiniteSets, TLC

(***************************************************************************)
(* Bounds of the model.                                                    *)
(***************************************************************************)
\* how many sessions POST /sessions creates in one run
MaxSessions == 2
\* how many signaling connections are opened against the server in one run
MaxConns == 3
\* how many times the requester presses "Request Live Agent" in one run
MaxStarts == 3
\* how many messages the requester's controller hands to sendSignal between
\* two teardowns
MaxSignals == 3
\* how many times the requester presses "Request Live Agent" in the runs in
\* which the ticket and the screen stream can fail
MaxDegraded == 2

\* how many times the agent joins a session in one run
MaxJoins == 1
\* how many dashboards connect to the ticket broker in one run
MaxDashboards == 3
\* how many HTTP requests the ticket broker receives in one run
MaxRequests == 2
\* how many messages the annotation data channel delivers in one run
MaxAnnotationMessages == 3
\* how long the clock of the annotation overlay runs, in units of 500 ms
MaxTime == 48
\* how many times agents press a button of a ticket's modal in one run
MaxClicks == 3
\* how many dashboards are open while the dashboards are watched
MaxDesks == 2
\* how many connections between a dashboard and the broker break in one run
MaxCuts == 1
\* how many tickets the kiosks post while the dashboards are watched
MaxTickets == 1

SessionIds == 1..MaxSessions
Conns == 1..MaxConns
Starts == 1..MaxStarts
Dashboards == 1..MaxDashboards
Joins == 1..MaxJoins
Requests == 1..MaxRequests

(***************************************************************************)
(* Values.                                                                 *)
(***************************************************************************)
\* a field that is not there (undefined in the source, omitted by JSON.stringify)
Absent == "absent"

\* index.ts:9 - the two roles a Participant is typed with
Roles == {"vtm", "agent"}

\* index.ts:11 - SignalingKind, the frame types the server relays
SignalingKinds == {"offer", "answer", "ice", "hangup", "peer-ready"}

\* what the `role` query parameter of the handshake can be: missing, a Role,
\* or any other string (the cast at index.ts:145 checks nothing)
RoleParams == {Absent, "vtm", "agent", "admin"}

\* what the `sessionId` query parameter can be: missing (0) or an id
SessionParams == {0} \cup SessionIds

NoPayload == [tag |-> Absent, val |-> 0]
ClientPayload == [tag |-> "client", val |-> 1]
\* index.ts:171 - payload: { participants: session.participants.size }
ParticipantsPayload(n) == [tag |-> "participants", val |-> n]
\* index.ts:151 - payload: { message: 'Session not found' }
NotFoundPayload == [tag |-> "Session not found", val |-> 0]

\* A SignalingEnvelope (index.ts:13-17) as it is written to a socket; `extra`
\* stands for any further field of a client frame, which the spread at
\* index.ts:204 carries along.
Envelope(type, payload, senderRole, extra) ==
    [type |-> type, payload |-> payload, senderRole |-> senderRole, extra |-> extra]

\* index.ts:149-152 - the error envelope of a rejected connection
ErrorEnvelope == Envelope("error", NotFoundPayload, Absent, Absent)

\* index.ts:169-172 - the private peer-update of the joiner (no senderRole)
PrivatePeerUpdate(n) == Envelope("peer-update", ParticipantsPayload(n), Absent, Absent)

\* index.ts:177-181 - the peer-update broadcast to the others
PeerUpdate(role, n) == Envelope("peer-update", ParticipantsPayload(n), role, Absent)

\* index.ts:221-224 - the hangup the server generates when a connection detaches
HangupEnvelope(role) == Envelope("hangup", NoPayload, role, Absent)

\* index.ts:187 - { type: 'heartbeat' }
HeartbeatEnvelope == Envelope("heartbeat", NoPayload, Absent, Absent)

(***************************************************************************)
(* Frames a client can write to its socket.  `json` tells what              *)
(* JSON.parse(raw.toString()) makes of the frame (index.ts:193):           *)
(*   "malformed" - it throws;  "null" - it yields null, so that reading    *)
(*   parsed.type throws;  "scalar" - a number, string, boolean or array,   *)
(*   whose .type is undefined;  "object" - an object with these fields.    *)
(***************************************************************************)
FrameTypes == SignalingKinds \cup {"peer-update", "heartbeat", "error", "bogus", Absent}

Frame(json, type, payload, senderRole, extra) ==
    [json |-> json, type |-> type, payload |-> payload,
     senderRole |-> senderRole, extra |-> extra]

NoFrame == Frame("none", Absent, NoPayload, Absent, Absent)

\* the payload a well-typed client puts in a frame of each kind
\* (webrtc-client/src/index.ts:10-30: hangup and peer-ready need none)
PayloadOf(t) == IF t \in {"offer", "answer", "ice"} THEN ClientPayload ELSE NoPayload

\* The frames the model's clients write: an offer with every senderRole a
\* client can put, with and without a further field; every other relayed kind
\* and every other type once, with a forged senderRole; and the three kinds of
\* non-objects.
ObjectFrames ==
    { Frame("object", "offer", ClientPayload, r, Absent) : r \in RoleParams }
    \cup { Frame("object", "offer", ClientPayload, r, "x") : r \in {Absent, "agent"} }
    \cup { Frame("object", t, PayloadOf(t), "agent", Absent) :
             t \in FrameTypes \ {"offer"} }

Frames ==
    ObjectFrames \cup
    { Frame(j, Absent, NoPayload, Absent, Absent) : j \in {"malformed", "null", "scalar"} }

(***************************************************************************)
(* State of the signaling server.                                          *)
(***************************************************************************)
VARIABLES
    sessions,      \* index.ts:54 - the ids that are keys of the `sessions` Map
    sessionAt,     \* index.ts:81 - the session object that sessions.set has
                   \* stored last under each id; the k-th POST /sessions
                   \* makes object k
    participants,  \* Session.participants of each session object ever created,
                   \* in Map insertion order; a handler keeps its session object
                   \* (index.ts:159) also after the id left the registry
    nextSession,   \* how many ids nanoid(8) has handed out (index.ts:75)
    nextConn,      \* how many connections the server has accepted (index.ts:138)
    readyState,    \* socket.readyState of each connection, as the server sees it
    connState,     \* where each connection's handler stands:
                   \* "none", "rejected", "attached", "detached"
    connSession,   \* the handler's `sessionId` (index.ts:144)
    connObject,    \* the handler's `session` (index.ts:159)
    connRole,      \* the handler's `role` (index.ts:145)
    listeners,     \* whether the handler's message/close/error listeners are on
    heartbeat,     \* whether the handler's setInterval timer is running
    lastOp,        \* the handler of the current turn of the event loop, with
                   \* its input and closure; NoOp between two turns
    lastSends,     \* the socket.send calls of that handler, in order
    emptied,       \* history: the sessions whose last participant has detached
    dropped        \* history: the connections that have sent a malformed frame

serverVars ==
    <<sessions, sessionAt, participants, nextSession, nextConn, readyState,
      connState, connSession, connObject, connRole, listeners, heartbeat,
      lastOp, lastSends, emptied, dropped>>

(***************************************************************************)
(* State of the requester's controller (LiveAgentAssistPanel.tsx).         *)
(***************************************************************************)
VARIABLES
    panel          \* the component: its React state, its refs, and the browser
                   \* objects its start sequences have created (see PanelInit)

panelVars == <<panel>>

(***************************************************************************)
(* State of the ticket broker (the Live Agent bridge, websocket-server.js).*)
(***************************************************************************)
VARIABLES
    clients,       \* the `clients` Set, in insertion order
    dashReady,     \* ws.readyState of each dashboard socket, as the broker
                   \* sees it: "NONE" (not accepted yet), "OPEN", "CLOSING",
                   \* "CLOSED"
    nextDash,      \* how many dashboard connections the broker has accepted
    requests,      \* the HTTP requests: what requestListener's closure holds
    brokerOp,      \* the handler the broker has run last, with its input
    brokerOut      \* what that handler has written, in order: the sends to
                   \* dashboard sockets and the HTTP response

brokerVars == <<clients, dashReady, nextDash, requests, brokerOp, brokerOut>>

(***************************************************************************)
(* State of a call: the agent's controller (useAgentSession) and the       *)
(* session of the signaling server that joins it to the requester's.       *)
(***************************************************************************)
VARIABLES
    agent,         \* the hook: its React state, its refs, and the browser
                   \* objects its joins have created (see AgentInit)
    net            \* the session on the server and the frames in flight
                   \* (see CallInit)

callVars == <<agent, net>>

(***************************************************************************)
(* State of the requester's annotation overlay.                            *)
(***************************************************************************)
VARIABLES
    annotations,   \* LiveAgentAssistPanel.tsx:49 - the `annotations` state
    now,           \* Date.now(), in units of 500 ms
    sweepAt,       \* when the interval of the expiry sweep fires next
                   \* (:98-106); 0: no interval is set
    delivered,     \* how many messages the data channel has delivered
    overlayOp      \* the handler the overlay has run last (see OverlayOp)

overlayVars == <<annotations, now, sweepAt, delivered, overlayOp>>

(***************************************************************************)
(* State of the agents' dashboards: useTicketWebSocket (part_007:26-120)   *)
(* and the page that uses it (home.tsx), one per socket of the broker.     *)
(***************************************************************************)
VARIABLES
    tickets,         \* part_007:27 - the `tickets` state of each dashboard
    websocket,       \* part_007:33 - readyState of the dashboard's WebSocket
    isConnected,     \* part_007:28
    selectedTicket,  \* home.tsx:15 - the ticket object the modal shows
    joining,         \* home.tsx:46 - the ticket whose joinSession is awaited
    wire,            \* the frames in flight between dashboards and broker
    clicks           \* how many buttons of the modals have been pressed

deskVars == <<tickets, websocket, isConnected, selectedTicket, joining, wire, clicks>>

\* what a step of one part leaves alone
restOfServer == <<panelVars, brokerVars, callVars, overlayVars, deskVars>>
restOfPanel == <<serverVars, brokerVars, callVars, overlayVars, deskVars>>
restOfBroker == <<serverVars, panelVars, callVars, overlayVars, deskVars>>
restOfCall == <<serverVars, brokerVars, overlayVars, deskVars>>
restOfOverlay == <<serverVars, panelVars, brokerVars, callVars, deskVars>>
restOfDesk == <<serverVars, panelVars, callVars, overlayVars>>

vars == <<serverVars, panelVars, brokerVars, callVars, overlayVars, deskVars>>

\* A handler's run: which handler, on which connection, with which sessionId
\* and role in its closure (or in its request), on which frame, and the HTTP
\* status it answered (0: none).
Op(op, conn, sid, role, frame, status) ==
    [op |-> op, conn |-> conn, sid |-> sid, role |-> role, frame |-> frame,
     status |-> status]

NoOp == Op("none", 0, 0, Absent, NoFrame, 0)

Send(to, env) == [to |-> to, env |-> env]

\* a Map.delete that deletes nothing
WithoutKeeps(s, x) == s

RECURSIVE Without(_, _)
\* index.ts:218 - Map.delete: the sequence without the element x
Without(s, x) ==
    IF s = <<>> THEN <<>>
    ELSE IF Head(s) = x THEN Without(Tail(s), x)
    ELSE <<Head(s)>> \o Without(Tail(s), x)

(***************************************************************************)
(* index.ts:118-136 - broadcast(sessionId, message, excludeParticipantId), *)
(* on a registry `reg` (ids) with participant Maps `parts` and sockets in  *)
(* the states `ready`: the sends it makes, in order.                       *)
(***************************************************************************)
RECURSIVE broadcastToAll(_, _, _, _)
\* a broadcast that does not skip the excluded participant
broadcastToAll(ps, ready, message, excludeParticipantId) ==
    IF ps = <<>> THEN <<>>
    ELSE
        LET rest == broadcastToAll(Tail(ps), ready, message, excludeParticipantId)
        IN  IF ready[Head(ps)] = "OPEN"
            THEN <<Send(Head(ps), message)>> \o rest
            ELSE rest

RECURSIVE broadcastTo(_, _, _, _)
\* index.ts:128-135 - the forEach over the participants of the session
broadcastTo(ps, ready, message, excludeParticipantId) ==
    IF ps = <<>> THEN <<>>
    ELSE
        LET rest == broadcastTo(Tail(ps), ready, message, excludeParticipantId)
        IN  IF Head(ps) = excludeParticipantId THEN rest
            ELSE IF ready[Head(ps)] = "OPEN"
                 THEN <<Send(Head(ps), message)>> \o rest
                 ELSE rest

broadcast(reg, parts, ready, sessionId, message, excludeParticipantId) ==
    IF sessionId \notin reg THEN <<>>
    ELSE broadcastTo(parts[sessionAt[sessionId]], ready, message, excludeParticipantId)

\* a closeSessionIfEmpty that leaves the empty session in the registry
closeSessionNever(reg, parts, sessionId) == reg

\* index.ts:108-116 - closeSessionIfEmpty(sessionId): the registry afterwards
closeSessionIfEmpty(reg, parts, sessionId) ==
    IF sessionId \notin reg THEN reg
    ELSE IF Len(parts[sessionAt[sessionId]]) = 0 THEN reg \ {sessionId}
    ELSE reg

\* index.ts:64-72 - the body of GET /sessions
ListSessions ==
    { [id |-> s, participantCount |-> Len(participants[sessionAt[s]])] : s \in sessions }

\* index.ts:56-62 - activeSessions of GET /healthz
ActiveSessions == Cardinality(sessions)

(***************************************************************************)
(* Initial state: the server has just started to listen.                   *)
(***************************************************************************)
ServerInit ==
    /\ sessions = {}
    /\ sessionAt = [s \in SessionIds |-> 0]
    /\ participants = [s \in SessionIds |-> <<>>]
    /\ nextSession = 0
    /\ nextConn = 0
    /\ readyState = [c \in Conns |-> "NONE"]
    /\ connState = [c \in Conns |-> "none"]
    /\ connSession = [c \in Conns |-> 0]
    /\ connObject = [c \in Conns |-> 0]
    /\ connRole = [c \in Conns |-> Absent]
    /\ listeners = [c \in Conns |-> FALSE]
    /\ heartbeat = [c \in Conns |-> FALSE]
    /\ lastOp = NoOp
    /\ lastSends = <<>>
    /\ emptied = {}
    /\ dropped = {}

(***************************************************************************)
(* HTTP handlers.                                                          *)
(***************************************************************************)
\* index.ts:74-87 - POST /sessions, when nanoid(8).toUpperCase() yields
\* sessionId: sessions.set stores a new session object under it, in the place
\* of the object that was there
PostSessions(sessionId) ==
    /\ lastOp = NoOp
    /\ nextSession < MaxSessions
    /\ LET session == nextSession + 1
       IN  /\ nextSession' = session
           /\ sessions' = sessions \cup {sessionId}
           /\ sessionAt' = [sessionAt EXCEPT ![sessionId] = session]
           /\ participants' = [participants EXCEPT ![session] = <<>>]
           /\ lastOp' = Op("create", 0, sessionId, Absent, NoFrame, 200)
    /\ lastSends' = <<>>
    /\ UNCHANGED <<nextConn, readyState, connState, connSession, connObject,
                   connRole, listeners, heartbeat, emptied, dropped>>

\* POST /sessions when nanoid yields an id that no earlier call has returned
CreateSession == PostSessions(nextSession + 1)

\* index.ts:64-72 - GET /sessions; its body is ListSessions of this state
GetSessions ==
    /\ lastOp = NoOp
    /\ lastOp' = Op("list", 0, 0, Absent, NoFrame, 200)
    /\ lastSends' = <<>>
    /\ UNCHANGED <<sessions, sessionAt, participants, nextSession, nextConn, readyState,
                   connState, connSession, connObject, connRole,
                   listeners, heartbeat, emptied, dropped>>

\* a DELETE that answers 204 whether or not the id was in the registry
DeleteSessionAlways204(id) ==
    /\ lastOp = NoOp
    /\ sessions' = sessions \ {id}
    /\ lastOp' = Op("delete", 0, id, Absent, NoFrame, 204)
    /\ lastSends' = <<>>
    /\ UNCHANGED <<sessionAt, participants, nextSession, nextConn, readyState, connState,
                   connSession, connObject, connRole,
                   listeners, heartbeat, emptied, dropped>>

\* index.ts:89-93 - DELETE /sessions/:id
DeleteSession(id) ==
    /\ lastOp = NoOp
    /\ sessions' = sessions \ {id}
    /\ lastOp' = Op("delete", 0, id, Absent, NoFrame,
                    IF id \in sessions THEN 204 ELSE 404)
    /\ lastSends' = <<>>
    /\ UNCHANGED <<sessionAt, participants, nextSession, nextConn, readyState, connState,
                   connSession, connObject, connRole,
                   listeners, heartbeat, emptied, dropped>>

(***************************************************************************)
(* index.ts:138-236 - wss.on('connection'): a socket has completed its     *)
(* handshake with the query parameters sessionId and role.                 *)
(***************************************************************************)
\* index.ts:145 - requestUrl.searchParams.get('role') ?? 'vtm'
RoleOf(roleParam) == IF roleParam = Absent THEN "vtm" ELSE roleParam

\* a rejected branch that falls through to the heartbeat timer
RejectKeepsTimer(c, sessionId, role) ==
    /\ lastSends' = <<Send(c, ErrorEnvelope)>>
    /\ readyState' = [readyState EXCEPT ![c] = "CLOSING"]
    /\ connState' = [connState EXCEPT ![c] = "rejected"]
    /\ heartbeat' = [heartbeat EXCEPT ![c] = TRUE]
    /\ UNCHANGED <<sessions, sessionAt, participants, listeners, connSession,
                   connObject, connRole>>

\* index.ts:147-156 - the rejected branch
Reject(c, sessionId, role) ==
    /\ lastSends' = <<Send(c, ErrorEnvelope)>>
    /\ readyState' = [readyState EXCEPT ![c] = "CLOSING"]
    /\ connState' = [connState EXCEPT ![c] = "rejected"]
    /\ UNCHANGED <<sessions, sessionAt, participants, listeners, heartbeat,
                   connSession, connObject, connRole>>

\* an attaching branch that broadcasts before it answers the joiner
AttachBroadcastFirst(c, sessionId, role) ==
    LET session == sessionAt[sessionId]
        parts == [participants EXCEPT ![session] = Append(@, c)]
        ready == [readyState EXCEPT ![c] = "OPEN"]
        size  == Len(parts[session])
    IN  /\ participants' = parts
        /\ readyState' = ready
        /\ lastSends' =
              broadcast(sessions, parts, ready, sessionId, PeerUpdate(role, size), c)
              \o <<Send(c, PrivatePeerUpdate(size))>>
        /\ heartbeat' = [heartbeat EXCEPT ![c] = TRUE]
        /\ listeners' = [listeners EXCEPT ![c] = TRUE]
        /\ connState' = [connState EXCEPT ![c] = "attached"]
        /\ connSession' = [connSession EXCEPT ![c] = sessionId]
        /\ connObject' = [connObject EXCEPT ![c] = session]
        /\ connRole' = [connRole EXCEPT ![c] = role]
        /\ UNCHANGED <<sessions, sessionAt>>

\* index.ts:158-189 - the attaching branch; participantId is the connection
Attach(c, sessionId, role) ==
    LET session == sessionAt[sessionId]
        parts == [participants EXCEPT ![session] = Append(@, c)]
        ready == [readyState EXCEPT ![c] = "OPEN"]
        size  == Len(parts[session])
    IN  /\ participants' = parts
        /\ readyState' = ready
        /\ lastSends' =
              <<Send(c, PrivatePeerUpdate(size))>> \o
              broadcast(sessions, parts, ready, sessionId, PeerUpdate(role, size), c)
        /\ heartbeat' = [heartbeat EXCEPT ![c] = TRUE]
        /\ listeners' = [listeners EXCEPT ![c] = TRUE]
        /\ connState' = [connState EXCEPT ![c] = "attached"]
        /\ connSession' = [connSession EXCEPT ![c] = sessionId]
        /\ connObject' = [connObject EXCEPT ![c] = session]
        /\ connRole' = [connRole EXCEPT ![c] = role]
        /\ UNCHANGED <<sessions, sessionAt>>

Connect(sessionParam, roleParam) ==
    /\ lastOp = NoOp
    /\ nextConn < MaxConns
    /\ LET c == nextConn + 1
           role == RoleOf(roleParam)
       IN  /\ nextConn' = c
           /\ lastOp' = Op("connect", c, sessionParam, role, NoFrame, 0)
           /\ IF sessionParam = 0 \/ sessionParam \notin sessions
              THEN Reject(c, sessionParam, role)
              ELSE Attach(c, sessionParam, role)
    /\ UNCHANGED <<nextSession, emptied, dropped>>

(***************************************************************************)
(* index.ts:191-213 - socket.on('message')                                 *)
(***************************************************************************)
\* a tagging that keeps the senderRole the client wrote
TaggedTrusting(parsed, role) ==
    Envelope(parsed.type, parsed.payload,
             IF parsed.senderRole = Absent THEN role ELSE parsed.senderRole,
             parsed.extra)

\* index.ts:203-206 - { ...parsed, senderRole: role }
Tagged(parsed, role) == Envelope(parsed.type, parsed.payload, role, parsed.extra)

\* a handler without the try/catch around JSON.parse: the frame goes on
RelayUnparsed(c, raw) ==
    IF raw.json # "object" \/ raw.type \in SignalingKinds
    THEN broadcast(sessions, participants, readyState, connSession[c],
                   Tagged(raw, connRole[c]), c)
    ELSE <<>>

\* a handler that relays every object that has a type
RelayAnyType(c, raw) ==
    IF raw.json = "object" /\ raw.type # Absent
    THEN broadcast(sessions, participants, readyState, connSession[c],
                   Tagged(raw, connRole[c]), c)
    ELSE <<>>

\* index.ts:191-213 - what the handler of connection c sends for the frame `raw`
Relay(c, raw) ==
    IF raw.json = "malformed" THEN <<>>          \* JSON.parse throws, caught at 210
    ELSE IF raw.json = "null" THEN <<>>          \* parsed.type throws, caught at 210
    ELSE IF raw.json = "scalar" THEN <<>>        \* parsed.type is undefined
    ELSE IF raw.type \in SignalingKinds
         THEN broadcast(sessions, participants, readyState, connSession[c],
                        Tagged(raw, connRole[c]), c)
         ELSE <<>>

\* `track` switches the history variable `dropped` on
ClientFrame(c, raw, track) ==
    /\ lastOp = NoOp
    /\ readyState[c] = "OPEN"
    /\ listeners[c]
    /\ lastSends' = Relay(c, raw)
    /\ lastOp' = Op("message", c, connSession[c], connRole[c], raw, 0)
    /\ dropped' = IF track /\ raw.json = "malformed" THEN dropped \cup {c}
                  ELSE dropped
    /\ UNCHANGED <<sessions, sessionAt, participants, nextSession, nextConn, readyState,
                   connState, connSession, connObject, connRole,
                   listeners, heartbeat, emptied>>

(***************************************************************************)
(* index.ts:215-231 - cleanup, the listener of 'close' and of 'error'      *)
(***************************************************************************)
cleanup(c, ready) ==
    LET sessionId == connSession[c]
        session == connObject[c]
        parts == [participants EXCEPT ![session] = Without(@, c)]
    IN  /\ heartbeat' = [heartbeat EXCEPT ![c] = FALSE]
        /\ listeners' = [listeners EXCEPT ![c] = FALSE]
        /\ participants' = parts
        /\ lastSends' = broadcast(sessions, parts, ready, sessionId,
                                  HangupEnvelope(connRole[c]), c)
        /\ sessions' = closeSessionIfEmpty(sessions, parts, sessionId)
        /\ connState' = [connState EXCEPT ![c] = "detached"]
        \* nothing refers to the handler's closure any more
        /\ connSession' = [connSession EXCEPT ![c] = 0]
        /\ connObject' = [connObject EXCEPT ![c] = 0]
        /\ connRole' = [connRole EXCEPT ![c] = Absent]
        /\ emptied' = IF parts[session] = <<>> THEN emptied \cup {sessionId}
                      ELSE emptied
        /\ UNCHANGED sessionAt

\* the socket emits an event that has no listener
NoListener ==
    /\ lastSends' = <<>>
    /\ UNCHANGED <<sessions, sessionAt, participants, listeners, heartbeat,
                   connState, connSession, connObject, connRole, emptied>>

\* the closing handshake of an open socket starts (the peer sent a close frame
\* or the transport is going down); its 'close' event is still to come
BeginClose(c) ==
    /\ lastOp = NoOp
    /\ readyState[c] = "OPEN"
    /\ readyState' = [readyState EXCEPT ![c] = "CLOSING"]
    /\ lastOp' = Op("closing", c, connSession[c], connRole[c], NoFrame, 0)
    /\ lastSends' = <<>>
    /\ UNCHANGED <<sessions, sessionAt, participants, nextSession, nextConn, connState,
                   connSession, connObject, connRole,
                   listeners, heartbeat, emptied, dropped>>

\* index.ts:231 - the socket emits 'error'; ws has moved it to CLOSING
SocketError(c) ==
    /\ lastOp = NoOp
    /\ readyState[c] = "OPEN"
    /\ LET ready == [readyState EXCEPT ![c] = "CLOSING"]
       IN  /\ readyState' = ready
           /\ IF listeners[c] THEN cleanup(c, ready) ELSE NoListener
    /\ lastOp' = Op("error", c, connSession[c], connRole[c], NoFrame, 0)
    /\ dropped' = dropped \ {c}
    /\ UNCHANGED <<nextSession, nextConn>>

\* index.ts:230 - the socket emits 'close'; it is CLOSED
SocketClose(c) ==
    /\ lastOp = NoOp
    /\ readyState[c] \in {"OPEN", "CLOSING"}
    /\ LET ready == [readyState EXCEPT ![c] = "CLOSED"]
       IN  /\ readyState' = ready
           /\ IF listeners[c] THEN cleanup(c, ready) ELSE NoListener
    /\ lastOp' = Op("close", c, connSession[c], connRole[c], NoFrame, 0)
    /\ dropped' = dropped \ {c}
    /\ UNCHANGED <<nextSession, nextConn>>

\* index.ts:185-189 - one tick of the connection's heartbeat interval
HeartbeatTick(c) ==
    /\ lastOp = NoOp
    /\ heartbeat[c]
    /\ lastSends' = IF readyState[c] = "OPEN"
                    THEN <<Send(c, HeartbeatEnvelope)>>
                    ELSE <<>>
    /\ lastOp' = Op("heartbeat", c, connSession[c], connRole[c], NoFrame, 0)
    /\ UNCHANGED <<sessions, sessionAt, participants, nextSession, nextConn, readyState,
                   connState, connSession, connObject, connRole,
                   listeners, heartbeat, emptied, dropped>>

\* The handler returns to the event loop: Node runs one handler at a time, and
\* what the turn sent is on the wire.
EndOfTurn ==
    /\ lastOp # NoOp
    /\ lastOp' = NoOp
    /\ lastSends' = <<>>
    /\ UNCHANGED <<sessions, sessionAt, participants, nextSession, nextConn, readyState,
                   connState, connSession, connObject, connRole,
                   listeners, heartbeat, emptied, dropped>>

(***************************************************************************)
(* Part II - the requester's controller.                                   *)
(*                                                                         *)
(* Every press of the start button begins a start sequence; the k-th       *)
(* sequence creates session k, peer connection k, camera and screen stream *)
(* k and signaling socket k, so that a ref holds the number of the         *)
(* sequence whose object it points to, and 0 for null.  The server and the *)
(* remote peer are the environment: socket k can open, deliver any         *)
(* envelope the server writes, start closing and close at any time.        *)
(***************************************************************************)
\* callError === null
NoError == "null"

\* a message as it is handed to sendSignal (webrtc-client/src/index.ts:10-30);
\* `serial` numbers the calls of sendSignal, it is not on the wire
Signal(type, payload, serial) ==
    [type |-> type, payload |-> payload, serial |-> serial]

\* the RTCSessionDescriptionInit that createOffer of peer connection k yields
OfferPayload(k) == [tag |-> "sdp", val |-> k]
\* candidate.toJSON() of a candidate of peer connection k
CandidatePayload(k) == [tag |-> "candidate", val |-> k]

\* The envelopes the server writes to a requester's socket: its own private
\* peer-update, the peer-update of a later joiner, heartbeats, the error of a
\* rejected connection, the hangup of a detached participant, and the answer
\* and the candidates that the agent has the server relay.
ServerEnvelopes ==
    { PrivatePeerUpdate(1), PeerUpdate("agent", 2), PeerUpdate("vtm", 2),
      HeartbeatEnvelope, ErrorEnvelope, HangupEnvelope("agent") }
    \cup { Envelope(t, PayloadOf(t), "agent", Absent) : t \in {"answer", "ice"} }

\* LiveAgentAssistPanel.tsx:36-67 - the component when it has mounted
PanelInit ==
    panel = [ callState |-> "idle",            \* :37
              sessionId |-> 0,                 \* :38
              callError |-> NoError,           \* :39
              participantCount |-> 1,          \* :40
              wsRef |-> 0,                     \* :53
              pcRef |-> 0,                     \* :54
              pendingSignalsRef |-> <<>>,      \* :55
              localCameraStreamRef |-> 0,      \* :61
              localScreenStreamRef |-> 0,      \* :62
              lastOfferRef |-> 0,              \* :67
              \* how many start sequences have begun
              started |-> 0,
              \* where each start sequence stands: "none", awaiting
              \* "session", "ticket", "camera", "screen", or "done"
              start |-> [k \in Starts |-> "none"],
              \* readyState of each signaling socket ("none": not created)
              socket |-> [k \in Starts |-> "none"],
              \* whether the socket's onclose handler is set
              onclose |-> [k \in Starts |-> FALSE],
              \* each peer connection: "none"; "new"; "offered" once it
              \* has its local description; "answered" once it has the
              \* remote one; then its connectionState "connected",
              \* "disconnected", "failed"; "closed"
              peer |-> [k \in Starts |-> "none"],
              \* the createOffer ("creating") or setLocalDescription
              \* ("setting") that onOpen awaits on the peer connection
              offerOp |-> [k \in Starts |-> "none"],
              \* the tracks of each camera and screen stream:
              \* "none", "live", "stopped"
              camera |-> [k \in Starts |-> "none"],
              screen |-> [k \in Starts |-> "none"],
              \* pending setTimeout(() => setCallError(null), 5000)
              timers |-> 0,
              \* the socket.send calls of the last task: socket and message
              sent |-> <<>>,
              \* how many times sendSignal has been called since the last
              \* teardown
              signals |-> 0,
              \* history: for each socket, the messages sendSignal has queued
              \* while it was the socket in wsRef and still connecting
              awaiting |-> [k \in Starts |-> <<>>],
              \* history: the offer createOffer yielded last (0: none)
              created |-> 0,
              \* history: the offer socket.send was called with last since
              \* the last teardown (0: none)
              sentOffer |-> 0,
              \* history: the callState that the closure of the End button's
              \* handler held when it ran in the last task ("none": it did
              \* not run), "again" once it has run a second time
              ended |-> "none",
              \* history: the End handler has torn the session down and the
              \* start button has not been pressed since
              hungUp |-> FALSE ]

\* the panel when a task begins
Now == [panel EXCEPT !.sent = <<>>, !.ended = "none"]

\* a peer connection that exists and is not closed
Live(p, k) == p.peer[k] \notin {"none", "closed"}

\* a peer connection with a local, with a remote description
HasLocal(p, k) ==
    p.peer[k] \in {"offered", "answered", "connected", "disconnected", "failed"}
HasRemote(p, k) == p.peer[k] \in {"answered", "connected", "disconnected", "failed"}

\* WebSocket.close(): a socket that is connecting or open starts closing
CloseSocket(state) ==
    IF state \in {"CONNECTING", "OPEN"} THEN "CLOSING" ELSE state

\* MediaStreamTrack.stop() on the tracks of a stream
StopTracks(tracks) == IF tracks = "live" THEN "stopped" ELSE tracks

\* socket.send(JSON.stringify(message)) on socket k
SocketSend(p, k, message) ==
    [p EXCEPT !.sent = Append(@, [to |-> k, message |-> message]),
              !.sentOffer = IF message.type = "offer" THEN message.payload.val ELSE @]

RECURSIVE SendEach(_, _, _)
\* :129-131 - forEach over the queue
SendEach(p, k, queue) ==
    IF queue = <<>> THEN p
    ELSE SendEach(SocketSend(p, k, Head(queue)), k, Tail(queue))

\* LiveAgentAssistPanel.tsx:112-119
sendSignal(p, type, payload) ==
    LET socket == p.wsRef
        p1 == [p EXCEPT !.signals = @ + 1]
        message == Signal(type, payload, p1.signals)
    IN  IF socket = 0 \/ p.socket[socket] # "OPEN"
        THEN [p1 EXCEPT !.pendingSignalsRef = Append(@, message),
                        !.awaiting = IF socket # 0 /\ p.socket[socket] = "CONNECTING"
                                     THEN [@ EXCEPT ![socket] = Append(@, message)]
                                     ELSE @]
        ELSE SocketSend(p1, socket, message)

\* LiveAgentAssistPanel.tsx:121-133
flushPendingSignals(p) ==
    LET socket == p.wsRef
    IN  IF socket = 0 \/ p.socket[socket] # "OPEN"
        THEN p
        ELSE IF Len(p.pendingSignalsRef) = 0
        THEN p
        ELSE [SendEach(p, socket, p.pendingSignalsRef) EXCEPT !.pendingSignalsRef = <<>>]

\* a teardown that leaves the pending queue as it is
cleanupLiveAgentKeepsQueue(p, reason, nextState, closeSocket) ==
    LET ws == p.wsRef
        pc == p.pcRef
        cam == p.localCameraStreamRef
        scr == p.localScreenStreamRef
        closing == closeSocket /\ ws # 0
    IN  [p EXCEPT
            !.onclose = IF closing THEN [@ EXCEPT ![ws] = FALSE] ELSE @,
            !.socket = IF closing THEN [@ EXCEPT ![ws] = CloseSocket(@)] ELSE @,
            !.awaiting = IF closing THEN [@ EXCEPT ![ws] = <<>>] ELSE @,
            !.wsRef = 0,
            !.peer = IF pc # 0 THEN [@ EXCEPT ![pc] = "closed"] ELSE @,
            !.offerOp = IF pc # 0 THEN [@ EXCEPT ![pc] = "none"] ELSE @,
            !.pcRef = 0,
            !.camera = IF cam # 0 THEN [@ EXCEPT ![cam] = StopTracks(@)] ELSE @,
            !.screen = IF scr # 0 THEN [@ EXCEPT ![scr] = StopTracks(@)] ELSE @,
            !.localCameraStreamRef = 0,
            !.localScreenStreamRef = 0,
            !.participantCount = 1,
            !.lastOfferRef = 0,
            !.sessionId = 0,
            !.callError = reason,
            !.callState = nextState,
            !.signals = 0,
            !.sentOffer = 0]

\* LiveAgentAssistPanel.tsx:135-191 (the remote streams, the annotation
\* channel and the annotations are not part of this model).  Closing a peer
\* connection removes its handlers (:148-150) and aborts the operations
\* pending on it, whose promises then never settle.
cleanupLiveAgent(p, reason, nextState, closeSocket) ==
    LET ws == p.wsRef
        pc == p.pcRef
        cam == p.localCameraStreamRef
        scr == p.localScreenStreamRef
        closing == closeSocket /\ ws # 0
    IN  [p EXCEPT
            !.onclose = IF closing THEN [@ EXCEPT ![ws] = FALSE] ELSE @,
            !.socket = IF closing THEN [@ EXCEPT ![ws] = CloseSocket(@)] ELSE @,
            !.awaiting = IF closing THEN [@ EXCEPT ![ws] = <<>>] ELSE @,
            !.wsRef = 0,
            !.peer = IF pc # 0 THEN [@ EXCEPT ![pc] = "closed"] ELSE @,
            !.offerOp = IF pc # 0 THEN [@ EXCEPT ![pc] = "none"] ELSE @,
            !.pcRef = 0,
            !.camera = IF cam # 0 THEN [@ EXCEPT ![cam] = StopTracks(@)] ELSE @,
            !.screen = IF scr # 0 THEN [@ EXCEPT ![scr] = StopTracks(@)] ELSE @,
            !.localCameraStreamRef = 0,
            !.localScreenStreamRef = 0,
            !.participantCount = 1,
            !.lastOfferRef = 0,
            !.sessionId = 0,
            !.pendingSignalsRef = <<>>,
            !.callError = reason,
            !.callState = nextState,
            !.signals = 0,
            !.sentOffer = 0]

(***************************************************************************)
(* startLiveAgentSession (LiveAgentAssistPanel.tsx:354-524), one action    *)
(* for each stretch between two awaits.                                    *)
(***************************************************************************)
\* :354-363 - the button is rendered in idle, error and preparing and is
\* disabled in preparing (:551-552, :654-657); up to the first await
startLiveAgentSession ==
    LET k == panel.started + 1
    IN  /\ k <= MaxStarts
        /\ panel.callState \in {"idle", "error"}
        /\ ~(panel.callState = "connecting" \/ panel.callState = "preparing")
        /\ panel' = [Now EXCEPT !.started = k,
                                !.hungUp = FALSE,
                                !.callError = NoError,
                                !.callState = "preparing",
                                !.start[k] = "session"]

\* :363-374 - createSignalingSession() settles: with an id, with an empty id,
\* or it throws
SessionCreated(k, result) ==
    /\ panel.start[k] = "session"
    /\ panel' =
         CASE result = "id" ->
                [Now EXCEPT !.sessionId = k, !.start[k] = "ticket"]
           [] result = "empty" ->
                [cleanupLiveAgent(Now, "Failed to create signaling session", "error", TRUE)
                    EXCEPT !.start[k] = "done"]
           [] result = "throw" ->
                [cleanupLiveAgent(Now, "Failed to start live session", "error", TRUE)
                    EXCEPT !.start[k] = "done"]

\* :374-456 - createLiveAgentTicket() settles, then buildPeerConnection
\* returns a peer connection or throws
TicketSettled(k, notified, built) ==
    LET p1 == IF notified THEN Now
              ELSE [Now EXCEPT !.callError = "Live agent notification failed"]
    IN  /\ panel.start[k] = "ticket"
        /\ panel' =
             IF built
             THEN [p1 EXCEPT !.peer[k] = "new", !.pcRef = k, !.start[k] = "camera"]
             ELSE [cleanupLiveAgent(p1, "Failed to create peer connection", "error", TRUE)
                      EXCEPT !.start[k] = "done"]

\* :456-466 - createCameraStream() settles; addTrack throws on a closed peer
\* connection
CameraSettled(k, granted) ==
    LET p1 == [Now EXCEPT !.camera[k] = "live", !.localCameraStreamRef = k]
    IN  /\ panel.start[k] = "camera"
        /\ panel' =
             IF ~granted
             THEN [cleanupLiveAgent(Now, "Failed to start live session", "error", TRUE)
                      EXCEPT !.start[k] = "done"]
             ELSE IF ~Live(panel, k)
             THEN [cleanupLiveAgent(p1, "Failed to start live session", "error", TRUE)
                      EXCEPT !.start[k] = "done"]
             ELSE [p1 EXCEPT !.start[k] = "screen"]

\* a start sequence for which the failure of createScreenStream is fatal
ScreenSettledFatal(k, granted) ==
    /\ panel.start[k] = "screen"
    /\ panel' =
         IF granted /\ Live(panel, k)
         THEN [Now EXCEPT !.screen[k] = "live", !.localScreenStreamRef = k,
                          !.callState = "connecting", !.socket[k] = "CONNECTING",
                          !.onclose[k] = TRUE, !.wsRef = k, !.start[k] = "done"]
         ELSE [cleanupLiveAgent(Now, "Failed to start live session", "error", TRUE)
                  EXCEPT !.start[k] = "done"]

\* :466-507 - createScreenStream() settles; a failure, also of addTrack, only
\* sets the warning; then the socket is created
ScreenSettled(k, granted) ==
    LET p1 == IF granted
              THEN [Now EXCEPT !.screen[k] = "live", !.localScreenStreamRef = k]
              ELSE Now
        p2 == IF granted /\ Live(panel, k)
              THEN p1
              ELSE [p1 EXCEPT !.callError = "Screen sharing is not available",
                              !.timers = @ + 1]
    IN  /\ panel.start[k] = "screen"
        /\ panel' = [p2 EXCEPT !.callState = "connecting",
                               !.socket[k] = "CONNECTING",
                               !.onclose[k] = TRUE,
                               !.wsRef = k,
                               !.start[k] = "done"]

\* :479 - the timer of the screen-sharing warning fires
CallErrorTimeout ==
    /\ panel.timers > 0
    /\ panel' = [Now EXCEPT !.callError = NoError, !.timers = @ - 1]

(***************************************************************************)
(* The signaling socket's onopen (:491-504).                               *)
(***************************************************************************)
\* :491-494, :498-503 - up to the await of createOffer, which is rejected at
\* once on a closed peer connection
onOpen(p, k) ==
    LET p1 == flushPendingSignals(p)
    IN  IF Live(p1, k)
        THEN [p1 EXCEPT !.offerOp[k] = "creating"]
        ELSE cleanupLiveAgent(p1, "Unable to complete offer", "error", TRUE)

\* webrtc-client/src/index.ts:110 - the socket opens
SocketOpen(k) ==
    /\ panel.socket[k] = "CONNECTING"
    /\ panel' = onOpen([Now EXCEPT !.socket[k] = "OPEN", !.awaiting[k] = <<>>], k)

\* :494-495 - createOffer resolves, setLocalDescription is called
OfferCreated(k) ==
    /\ panel.offerOp[k] = "creating"
    /\ Live(panel, k)
    /\ panel' = [Now EXCEPT !.created = k, !.offerOp[k] = "setting"]

\* :496-497
StoreAndSend(p, k) ==
    sendSignal([p EXCEPT !.peer[k] = "offered",
                         !.lastOfferRef = k,
                         !.offerOp[k] = "none"],
               "offer", OfferPayload(k))

\* :495-497 - setLocalDescription resolves
LocalDescriptionSet(k) ==
    /\ panel.offerOp[k] = "setting"
    /\ Live(panel, k)
    /\ panel.signals < MaxSignals
    /\ panel' = StoreAndSend(Now, k)

\* :498-503 - createOffer or setLocalDescription is rejected
OfferRejected(k) ==
    /\ panel.offerOp[k] \in {"creating", "setting"}
    /\ panel' = [cleanupLiveAgent(Now, "Unable to complete offer", "error", TRUE)
                    EXCEPT !.offerOp[k] = "none"]

(***************************************************************************)
(* The peer connection's events (:416-429).                                *)
(***************************************************************************)
\* :416-419, webrtc-client/src/index.ts:217-221 - a local candidate is found
IceCandidate(k) ==
    /\ HasLocal(panel, k)
    /\ panel.signals < MaxSignals
    /\ panel' = sendSignal(Now, "ice", CandidatePayload(k))

\* :421-429, webrtc-client/src/index.ts:227-229 - connectionState becomes
\* `state`
ConnectionStateChange(k, state) ==
    /\ CASE state = "connected" -> panel.peer[k] \in {"answered", "disconnected"}
         [] state = "disconnected" -> panel.peer[k] = "connected"
         [] state = "failed" -> panel.peer[k] \in {"answered", "connected", "disconnected"}
    /\ panel' =
         LET p1 == [Now EXCEPT !.peer[k] = state]
         IN  CASE state = "connected" -> [p1 EXCEPT !.callState = "connected"]
               [] state = "disconnected" -> [p1 EXCEPT !.callState = "connecting"]
               [] state = "failed" ->
                    cleanupLiveAgent(p1, "Peer connection failed", "error", TRUE)

(***************************************************************************)
(* handleSignalingMessage (:291-352).                                      *)
(***************************************************************************)
\* :293-297 - a peer-update that reports the participants
IsPeerUpdate(message) ==
    message.type = "peer-update" /\ message.payload.tag = "participants"

\* a handler that sends the offer only once, when the socket opens
ResendsNever(p, message) == FALSE

\* :301-305 - whether the peer-update makes the handler re-send the offer
Resends(p, message) ==
    /\ message.senderRole = "agent"
    /\ message.payload.val > 1
    /\ p.lastOfferRef # 0

\* whether the operation the handler awaits on peer connection k can succeed:
\* setRemoteDescription of an answer needs the local offer and no remote
\* description yet, addIceCandidate needs the remote description
CanApply(p, k, type) ==
    /\ type = "answer" => p.peer[k] = "offered"
    /\ type = "ice" => HasRemote(p, k)

\* :291-352 - `applies` tells whether the setRemoteDescription or the
\* addIceCandidate that the handler awaits resolves; the handler does nothing
\* between the call and its settlement
handleSignalingMessage(p, message, applies) ==
    CASE IsPeerUpdate(message) ->
           LET p1 == [p EXCEPT !.participantCount = message.payload.val]
           IN  IF Resends(p, message)
               THEN sendSignal(p1, "offer", OfferPayload(p.lastOfferRef))
               ELSE p1
      [] message.type = "heartbeat" -> p
      [] message.type = "error" ->
           cleanupLiveAgent(p, message.payload.tag, "error", FALSE)
      [] OTHER ->
           IF p.pcRef = 0 THEN p
           ELSE CASE message.type \in {"answer", "ice"} ->
                       IF applies /\ CanApply(p, p.pcRef, message.type)
                       THEN [p EXCEPT !.peer[p.pcRef] =
                                         IF message.type = "answer" THEN "answered" ELSE @]
                       ELSE cleanupLiveAgent(p, "Failed to process signaling message",
                                             "error", FALSE)
                  [] message.type = "hangup" ->
                       cleanupLiveAgent(p, "Agent ended the session", "idle", FALSE)
                  [] OTHER -> p

\* webrtc-client/src/index.ts:111-118 - the socket delivers an envelope
SocketMessage(k, message, applies) ==
    /\ panel.socket[k] = "OPEN"
    /\ (IsPeerUpdate(message) /\ message.senderRole # Absent /\ panel.lastOfferRef # 0)
           => panel.signals < MaxSignals
    /\ panel' = handleSignalingMessage(Now, message, applies)

(***************************************************************************)
(* The socket closes; the user ends the session.                           *)
(***************************************************************************)
\* the closing handshake starts at the server's end: readyState is CLOSING and
\* no event has fired yet (of a socket that wsRef no longer holds nothing
\* reads the readyState: its closing is part of SocketClosed)
SocketClosing(k) ==
    /\ panel.socket[k] = "OPEN"
    /\ panel.wsRef = k
    /\ panel' = [Now EXCEPT !.socket[k] = "CLOSING"]

\* webrtc-client/src/index.ts:119, LiveAgentAssistPanel.tsx:488-490 - the
\* close event of a socket that has its onclose handler (a socket that
\* cleanupLiveAgent has closed has none, and closes without a callback)
SocketClosed(k) ==
    /\ panel.socket[k] \in {"CONNECTING", "OPEN", "CLOSING"}
    /\ panel.onclose[k]
    /\ panel' = cleanupLiveAgent([Now EXCEPT !.socket[k] = "CLOSED", !.onclose[k] = FALSE,
                                              !.awaiting[k] = <<>>],
                                 "Signaling channel closed", "error", FALSE)

\* :526-532 - the handler of the End button, whose closure holds `state` for
\* callState
hangup(p, state) ==
    IF state = "idle" THEN p
    ELSE cleanupLiveAgent(sendSignal(p, "hangup", NoPayload), NoError, "idle", TRUE)

\* :526-532 - the End button, which is rendered in connecting and connected
\* (:551-552, :654-667)
endLiveAgentSession ==
    /\ panel.callState \in {"connecting", "connected"}
    /\ panel.signals < MaxSignals
    /\ panel' = [hangup(Now, panel.callState) EXCEPT !.ended = panel.callState,
                                                     !.hungUp = TRUE]

\* :526-532 - the handler runs a second time in succession: a second click
\* dispatched before the component has rendered again (the closure still
\* holds the callState of the first click) or after (`fresh`); `sent` is
\* kept, so that it holds the frames of the two runs
endLiveAgentSessionAgain(fresh) ==
    /\ panel.ended \notin {"none", "again"}
    /\ panel' = [hangup(panel, IF fresh THEN panel.callState ELSE panel.ended)
                    EXCEPT !.ended = "again"]

\* the outcomes of the operation the handler awaits: setRemoteDescription
\* resolves or rejects the answer it is given; addIceCandidate is rejected
\* only for want of a remote description (CanApply)
Settles(message) == IF message.type = "answer" THEN BOOLEAN ELSE {TRUE}

\* The controller with its user, its browser and its server.  `outcomes` are
\* the outcomes taken of the two awaits whose failure only sets the warning
\* shown to the user: createLiveAgentTicket (:403-410) and createScreenStream
\* (:475-480); `sequences` are the start sequences that are run.
PanelNext(outcomes, sequences) ==
    \/ /\ panel.started + 1 \in sequences
       /\ startLiveAgentSession
       /\ UNCHANGED restOfPanel
    \/ /\ \E k \in sequences, result \in {"id", "empty", "throw"} : SessionCreated(k, result)
       /\ UNCHANGED restOfPanel
    \/ /\ \E k \in sequences, notified \in outcomes, built \in BOOLEAN :
             TicketSettled(k, notified, built)
       /\ UNCHANGED restOfPanel
    \/ /\ \E k \in sequences, granted \in BOOLEAN : CameraSettled(k, granted)
       /\ UNCHANGED restOfPanel
    \/ /\ \E k \in sequences, granted \in outcomes : ScreenSettled(k, granted)
       /\ UNCHANGED restOfPanel
    \/ CallErrorTimeout /\ UNCHANGED restOfPanel
    \/ (\E k \in sequences : SocketOpen(k)) /\ UNCHANGED restOfPanel
    \/ (\E k \in sequences : OfferCreated(k)) /\ UNCHANGED restOfPanel
    \/ (\E k \in sequences : LocalDescriptionSet(k)) /\ UNCHANGED restOfPanel
    \/ (\E k \in sequences : OfferRejected(k)) /\ UNCHANGED restOfPanel
    \/ (\E k \in sequences : IceCandidate(k)) /\ UNCHANGED restOfPanel
    \/ /\ \E k \in sequences, state \in {"connected", "disconnected", "failed"} :
             ConnectionStateChange(k, state)
       /\ UNCHANGED restOfPanel
    \/ /\ \E k \in sequences, message \in ServerEnvelopes :
             \E applies \in Settles(message) : SocketMessage(k, message, applies)
       /\ UNCHANGED restOfPanel
    \/ (\E k \in sequences : SocketClosing(k)) /\ UNCHANGED restOfPanel
    \/ (\E k \in sequences : SocketClosed(k)) /\ UNCHANGED restOfPanel
    \/ endLiveAgentSession /\ UNCHANGED restOfPanel
    \/ (\E fresh \in BOOLEAN : endLiveAgentSessionAgain(fresh)) /\ UNCHANGED restOfPanel

(***************************************************************************)
(* Part III.  The ticket broker (part_008).                                *)
(*                                                                         *)
(* A request body, as JSON.parse(body) at :78 sees it.  `json`: "empty"    *)
(* and "malformed" - it throws; "null" - it yields null; "scalar" - a      *)
(* number, string or boolean; "object" - an object with these fields.      *)
(* `idType` tells what ticket.id is: Absent (undefined), a "string" or a   *)
(* "number"; `fields` whether the business fields of a Ticket are there.   *)
(***************************************************************************)
TicketDoc(json, id, idType, fields, timestamp) ==
    [json |-> json, id |-> id, idType |-> idType, fields |-> fields,
     timestamp |-> timestamp]

NoDoc == TicketDoc("none", Absent, Absent, Absent, Absent)

\* The bodies the model's kiosks post: a full ticket; a ticket that is an id
\* and nothing else; a full ticket without id; a ticket whose id is a number;
\* null; a scalar; a text that is not JSON; no body at all.
Bodies ==
    { TicketDoc("object", "t1", "string", "full", "ts"),
      TicketDoc("object", "t2", "string", Absent, Absent),
      TicketDoc("object", Absent, Absent, "full", "ts"),
      TicketDoc("object", "7", "number", "full", "ts"),
      TicketDoc("null", Absent, Absent, Absent, Absent),
      TicketDoc("scalar", Absent, Absent, Absent, Absent),
      TicketDoc("malformed", Absent, Absent, Absent, Absent),
      TicketDoc("empty", Absent, Absent, Absent, Absent) }

\* how many 'data' events deliver the body: none for the empty body, two for
\* the full ticket, one for the others
ChunksOf(doc) ==
    CASE doc.json = "empty" -> 0
      [] doc.json = "object" /\ doc.idType = "string" /\ doc.fields = "full" -> 2
      [] OTHER -> 1

\* A frame a dashboard writes to its socket, as JSON.parse(message.toString())
\* at :165 sees it.
DashFrame(json, type, ticketId, idType, status) ==
    [json |-> json, type |-> type, ticketId |-> ticketId, idType |-> idType,
     status |-> status]

NoDashFrame == DashFrame("none", Absent, Absent, Absent, Absent)

\* The frames the model's dashboards write: two status updates, one of them
\* without status; a status update without ticketId; the identify message
\* of the protocol; null; a text that is not JSON.
DashFrames ==
    { DashFrame("object", "update_ticket_status", "t1", "string", "resolved"),
      DashFrame("object", "update_ticket_status", "t2", "string", Absent),
      DashFrame("object", "update_ticket_status", Absent, Absent, "resolved"),
      DashFrame("object", "identify", Absent, Absent, Absent),
      DashFrame("null", Absent, Absent, Absent, Absent),
      DashFrame("malformed", Absent, Absent, Absent, Absent) }

\* The messages the broker writes to a dashboard socket; JSON.stringify
\* (:157, :197) leaves out a field that is undefined.
BrokerMessage(type, ticket, ticketId, status) ==
    [type |-> type, ticket |-> ticket, ticketId |-> ticketId, status |-> status]

\* :156-161
ConnectionEstablished == BrokerMessage("connection_established", NoDoc, Absent, Absent)
\* :82-85
NewTicket(ticket) == BrokerMessage("new_ticket", ticket, Absent, Absent)
\* :174-178
UpdateTicket(ticketId, status) == BrokerMessage("update_ticket", NoDoc, ticketId, status)
NoMessage == BrokerMessage(Absent, NoDoc, Absent, Absent)

\* what a handler writes: client.send(message) to dashboard `to`, or the
\* HTTP response of request `to` with its status and the `success` of its body
Sent(to, message) ==
    [kind |-> "send", to |-> to, status |-> 0, success |-> Absent, msg |-> message]
Response(r, status, success) ==
    [kind |-> "response", to |-> r, status |-> status, success |-> success,
     msg |-> NoMessage]

BrokerOp(op, req, dash, doc, frame) ==
    [op |-> op, req |-> req, dash |-> dash, doc |-> doc, frame |-> frame]

NoBrokerOp == BrokerOp("none", 0, 0, NoDoc, NoDashFrame)

\* what requestListener's closure holds of a request (:57-99): whether the
\* 'data' and 'end' listeners are on ("receiving") or the response has been
\* written ("answered"), the body the client sends, in how many chunks, and
\* how many of them `body` has got (:70-74)
NoRequest == [state |-> "none", doc |-> NoDoc, chunks |-> 0, body |-> 0]

BrokerInit ==
    /\ clients = <<>>                                   \* :55
    /\ dashReady = [d \in Dashboards |-> "NONE"]
    /\ nextDash = 0
    /\ requests = [r \in Requests |-> NoRequest]
    /\ brokerOp = NoBrokerOp
    /\ brokerOut = <<>>

\* Set.prototype.delete on the insertion-ordered Set (:187, :192)
Delete(set, d) == SelectSeq(set, LAMBDA c : c # d)

\* a broadcast that leaves out the socket `except`
broadcastToOthers(data, except) ==
    LET activeClients == SelectSeq(clients, LAMBDA client :
                                      dashReady[client] = "OPEN" /\ client # except)
    IN  [i \in 1..Len(activeClients) |-> Sent(activeClients[i], data)]

\* :196-207 - broadcastToClients: the sends it makes, in order
broadcastToClients(data) ==
    LET activeClients == SelectSeq(clients, LAMBDA client : dashReady[client] = "OPEN")
    IN  [i \in 1..Len(activeClients) |-> Sent(activeClients[i], data)]

\* :57-99 - requestListener: a request arrives with its head
RequestBegin(r, method, url, doc) ==
    /\ requests[r].state = "none"
    /\ \A q \in Requests : q < r => requests[q].state # "none"
    /\ IF method = "POST" /\ url = "/api/ticket"
       THEN /\ requests' = [requests EXCEPT ![r] =
                               [state |-> "receiving", doc |-> doc,
                                chunks |-> ChunksOf(doc), body |-> 0]]
            /\ brokerOut' = <<>>
       ELSE /\ requests' = [requests EXCEPT ![r].state = "answered"]
            /\ brokerOut' = <<Response(r, IF method = "OPTIONS" THEN 200 ELSE 404, Absent)>>
    /\ brokerOp' = BrokerOp("request", r, 0, NoDoc, NoDashFrame)
    /\ UNCHANGED <<clients, dashReady, nextDash>>

\* :72-74 - req.on('data')
RequestData(r) ==
    /\ requests[r].state = "receiving"
    /\ requests[r].body < requests[r].chunks
    /\ requests' = [requests EXCEPT ![r].body = @ + 1]
    /\ brokerOp' = BrokerOp("data", r, 0, NoDoc, NoDashFrame)
    /\ brokerOut' = <<>>
    /\ UNCHANGED <<clients, dashReady, nextDash>>

\* :78-79 - JSON.parse(body) throws on a text that is not JSON;
\* ticket.id.slice(0, 8) throws when the ticket is null, when it has no id
\* and when the id is not a string
TicketThrows(doc) ==
    \/ doc.json \in {"empty", "malformed"}
    \/ doc.json = "null"
    \/ doc.json = "scalar"
    \/ doc.json = "object" /\ doc.idType # "string"

\* a handler that answers before it broadcasts
RequestEndAnswersFirst(r) ==
    LET ticket == requests[r].doc
    IN  /\ requests[r].state = "receiving"
        /\ requests[r].body = requests[r].chunks
        /\ brokerOut' =
             IF TicketThrows(ticket)
             THEN <<Response(r, 400, "false")>>
             ELSE <<Response(r, 200, "true")>> \o broadcastToClients(NewTicket(ticket))
        /\ requests' = [requests EXCEPT ![r] = [NoRequest EXCEPT !.state = "answered"]]
        /\ brokerOp' = BrokerOp("end", r, 0, ticket, NoDashFrame)
        /\ UNCHANGED <<clients, dashReady, nextDash>>

\* :76-94 - req.on('end'): all of the body has arrived
RequestEnd(r) ==
    LET ticket == requests[r].doc
    IN  /\ requests[r].state = "receiving"
        /\ requests[r].body = requests[r].chunks
        /\ brokerOut' =
             IF TicketThrows(ticket)
             THEN <<Response(r, 400, "false")>>
             ELSE broadcastToClients(NewTicket(ticket)) \o <<Response(r, 200, "true")>>
        /\ requests' = [requests EXCEPT ![r] = [NoRequest EXCEPT !.state = "answered"]]
        /\ brokerOp' = BrokerOp("end", r, 0, ticket, NoDashFrame)
        /\ UNCHANGED <<clients, dashReady, nextDash>>

\* :130-161 - wss.on('connection'): the socket joins the Set and is greeted
DashConnect ==
    LET d == nextDash + 1
    IN  /\ d <= MaxDashboards
        /\ nextDash' = d
        /\ dashReady' = [dashReady EXCEPT ![d] = "OPEN"]
        /\ clients' = Append(clients, d)
        /\ brokerOp' = BrokerOp("connect", 0, d, NoDoc, NoDashFrame)
        /\ brokerOut' = <<Sent(d, ConnectionEstablished)>>
        /\ UNCHANGED requests

\* :165-171 - JSON.parse throws on a text that is not JSON; data.type throws
\* on null; data.ticketId.slice(0, 8) throws when a status update has no
\* ticketId or one that is not a string
FrameThrows(frame) ==
    \/ frame.json \in {"malformed", "null"}
    \/ /\ frame.type = "update_ticket_status"
       /\ frame.idType # "string"

\* a handler that does not send the update back to its sender
DashMessageToOthers(d, frame) ==
    /\ dashReady[d] = "OPEN"
    /\ brokerOut' =
         IF ~FrameThrows(frame) /\ frame.type = "update_ticket_status"
         THEN broadcastToOthers(UpdateTicket(frame.ticketId, frame.status), d)
         ELSE <<>>
    /\ brokerOp' = BrokerOp("message", 0, d, NoDoc, frame)
    /\ UNCHANGED <<clients, dashReady, nextDash, requests>>

\* :163-183 - ws.on('message')
DashMessage(d, frame) ==
    /\ dashReady[d] = "OPEN"
    /\ brokerOut' =
         IF ~FrameThrows(frame) /\ frame.type = "update_ticket_status"
         THEN broadcastToClients(UpdateTicket(frame.ticketId, frame.status))
         ELSE <<>>
    /\ brokerOp' = BrokerOp("message", 0, d, NoDoc, frame)
    /\ UNCHANGED <<clients, dashReady, nextDash, requests>>

\* the closing handshake of a dashboard socket starts: readyState is CLOSING
\* and no listener has been called yet
DashClosing(d) ==
    /\ dashReady[d] = "OPEN"
    /\ dashReady' = [dashReady EXCEPT ![d] = "CLOSING"]
    /\ brokerOp' = NoBrokerOp
    /\ brokerOut' = <<>>
    /\ UNCHANGED <<clients, nextDash, requests>>

\* :185-188 - ws.on('close')
DashClose(d) ==
    /\ dashReady[d] \in {"OPEN", "CLOSING"}
    /\ dashReady' = [dashReady EXCEPT ![d] = "CLOSED"]
    /\ clients' = Delete(clients, d)
    /\ brokerOp' = BrokerOp("close", 0, d, NoDoc, NoDashFrame)
    /\ brokerOut' = <<>>
    /\ UNCHANGED <<nextDash, requests>>

\* :190-193 - ws.on('error'): the socket that emits it is closing
DashError(d) ==
    /\ dashReady[d] \in {"OPEN", "CLOSING"}
    /\ dashReady' = [dashReady EXCEPT ![d] = "CLOSING"]
    /\ clients' = Delete(clients, d)
    /\ brokerOp' = BrokerOp("error", 0, d, NoDoc, NoDashFrame)
    /\ brokerOut' = <<>>
    /\ UNCHANGED <<nextDash, requests>>

\* the heads of the requests the model's clients send
Methods == {"OPTIONS", "POST", "GET"}
Urls == {"/api/ticket", "/health"}

\* The broker with its kiosks and its dashboards.
NextBroker ==
    \/ /\ \E r \in Requests, method \in Methods, url \in Urls, doc \in Bodies :
             RequestBegin(r, method, url, doc)
       /\ UNCHANGED restOfBroker
    \/ (\E r \in Requests : RequestData(r)) /\ UNCHANGED restOfBroker
    \/ (\E r \in Requests : RequestEnd(r)) /\ UNCHANGED restOfBroker
    \/ DashConnect /\ UNCHANGED restOfBroker
    \/ (\E d \in Dashboards, frame \in DashFrames : DashMessage(d, frame)) /\ UNCHANGED restOfBroker
    \/ (\E d \in Dashboards : DashClosing(d)) /\ UNCHANGED restOfBroker
    \/ (\E d \in Dashboards : DashClose(d)) /\ UNCHANGED restOfBroker
    \/ (\E d \in Dashboards : DashError(d)) /\ UNCHANGED restOfBroker

(***************************************************************************)
(* Part IV.  The agent's controller, useAgentSession (part_007:121-391).   *)
(*                                                                         *)
(* As in Part II a reference holds the number of the join that created its *)
(* object, and 0 for null; the remote streams are not part of the model.   *)
(***************************************************************************)
\* the RTCSessionDescriptionInit that createAnswer of peer connection j yields
AnswerPayload(j) == [tag |-> "sdp", val |-> j]

AgentInit ==
    agent = [ callState |-> "idle",            \* :133
              callError |-> NoError,           \* :134
              activeSessionId |-> 0,           \* :135
              wsRef |-> 0,                     \* :144
              pcRef |-> 0,                     \* :145
              pendingSignalsRef |-> <<>>,      \* :146
              localStreamRef |-> 0,            \* :148
              \* how many times joinSession has run
              joined |-> 0,
              \* where each join stands: "none", awaiting "camera", "done"
              join |-> [j \in Joins |-> "none"],
              \* readyState of each signaling socket ("none": not created)
              socket |-> [j \in Joins |-> "none"],
              \* whether the socket's onclose handler is set
              onclose |-> [j \in Joins |-> FALSE],
              \* each peer connection: "none"; "new"; "answered" once it
              \* has the remote offer and its local answer; "failed";
              \* "closed"
              peer |-> [j \in Joins |-> "none"],
              \* how many handlers of an offer await setRemoteDescription,
              \* createAnswer or setLocalDescription on the peer connection
              answering |-> [j \in Joins |-> 0],
              \* the tracks of each camera stream: "none", "live", "stopped"
              tracks |-> [j \in Joins |-> "none"],
              \* the socket.send calls of the last task: socket and message
              sent |-> <<>>,
              \* how many times sendSignal has been called since the last
              \* teardown
              signals |-> 0 ]

\* the hook when a task begins
AgentNow == [agent EXCEPT !.sent = <<>>]

\* a peer connection that exists and is not closed
AgentLive(a, j) == a.peer[j] \notin {"none", "closed"}

\* socket.send(JSON.stringify(message)) on socket j
AgentSocketSend(a, j, message) ==
    [a EXCEPT !.sent = Append(@, [to |-> j, message |-> message])]

RECURSIVE AgentSendEach(_, _, _)
\* :173-175 - forEach over the queue
AgentSendEach(a, j, queue) ==
    IF queue = <<>> THEN a
    ELSE AgentSendEach(AgentSocketSend(a, j, Head(queue)), j, Tail(queue))

\* part_007:156-163 - sendSignal
agentSendSignal(a, type, payload) ==
    LET socket == a.wsRef
        a1 == [a EXCEPT !.signals = @ + 1]
        message == Signal(type, payload, a1.signals)
    IN  IF socket = 0 \/ a.socket[socket] # "OPEN"
        THEN [a1 EXCEPT !.pendingSignalsRef = Append(@, message)]
        ELSE AgentSocketSend(a1, socket, message)

\* part_007:165-177 - flushPendingSignals
agentFlushPendingSignals(a) ==
    LET socket == a.wsRef
    IN  IF socket = 0 \/ a.socket[socket] # "OPEN"
        THEN a
        ELSE IF Len(a.pendingSignalsRef) = 0
        THEN a
        ELSE [AgentSendEach(a, socket, a.pendingSignalsRef)
                 EXCEPT !.pendingSignalsRef = <<>>]

\* part_007:179-226 - cleanupCall.  Closing the peer connection aborts the
\* operations pending on it, whose promises then never settle.
cleanupCall(a, reason, nextState, closeSocket) ==
    LET ws == a.wsRef
        pc == a.pcRef
        local == a.localStreamRef
        closing == closeSocket /\ ws # 0
    IN  [a EXCEPT
            !.onclose = IF closing THEN [@ EXCEPT ![ws] = FALSE] ELSE @,
            !.socket = IF closing THEN [@ EXCEPT ![ws] = CloseSocket(@)] ELSE @,
            !.wsRef = 0,
            !.peer = IF pc # 0 THEN [@ EXCEPT ![pc] = "closed"] ELSE @,
            !.answering = IF pc # 0 THEN [@ EXCEPT ![pc] = 0] ELSE @,
            !.pcRef = 0,
            !.pendingSignalsRef = <<>>,
            !.tracks = IF local # 0 THEN [@ EXCEPT ![local] = StopTracks(@)] ELSE @,
            !.localStreamRef = 0,
            !.callState = nextState,
            !.activeSessionId = IF nextState = "idle" THEN 0 ELSE @,
            !.callError = IF reason # NoError THEN reason
                          ELSE IF nextState = "idle" THEN NoError ELSE @,
            !.signals = 0]

\* part_007:306-339 - joinSession up to the await of createCameraStream;
\* `built` tells whether buildPeerConnection returns
joinSession(sessionId, built) ==
    LET j == agent.joined + 1
        a1 == [AgentNow EXCEPT !.joined = j,
                               !.callState = "answering",
                               !.activeSessionId = sessionId,
                               !.callError = NoError]
    IN  /\ j <= MaxJoins
        /\ sessionId # 0
        /\ ~(agent.callState = "connected" \/ agent.callState = "answering")
        /\ agent' =
             IF built
             THEN [a1 EXCEPT !.peer[j] = "new", !.pcRef = j, !.join[j] = "camera"]
             ELSE [cleanupCall(a1, "Failed to join session", "error", TRUE)
                      EXCEPT !.join[j] = "done"]

\* part_007:339-361 - createCameraStream() settles; addTrack throws on a
\* closed peer connection; then the socket is created
AgentCameraSettled(j, granted) ==
    LET a1 == [AgentNow EXCEPT !.tracks[j] = "live", !.localStreamRef = j]
    IN  /\ agent.join[j] = "camera"
        /\ agent' =
             IF ~granted
             THEN [cleanupCall(AgentNow, "Failed to join session", "error", TRUE)
                      EXCEPT !.join[j] = "done"]
             ELSE IF ~AgentLive(agent, j)
             THEN [cleanupCall(a1, "Failed to join session", "error", TRUE)
                      EXCEPT !.join[j] = "done"]
             ELSE [a1 EXCEPT !.socket[j] = "CONNECTING",
                             !.onclose[j] = TRUE,
                             !.wsRef = j,
                             !.join[j] = "done"]

\* part_007:351-353 - the socket opens
AgentSocketOpen(j) ==
    /\ agent.socket[j] = "CONNECTING"
    /\ agent' = agentFlushPendingSignals([AgentNow EXCEPT !.socket[j] = "OPEN"])

\* part_007:262-304 - handleSignalingMessage up to its first await.  An offer
\* starts setRemoteDescription; addIceCandidate needs the remote description,
\* which the peer connection has or is being given.
agentHandleSignalingMessage(a, message) ==
    CASE message.type \in {"peer-update", "heartbeat"} -> a
      [] message.type = "error" ->
           cleanupCall(a, message.payload.tag, "error", FALSE)
      [] OTHER ->
           LET pc == a.pcRef
           IN  IF pc = 0 THEN a
               ELSE CASE message.type = "offer" /\ message.payload.tag # Absent ->
                           [a EXCEPT !.answering[pc] = @ + 1]
                      [] message.type = "ice" /\ message.payload.tag # Absent ->
                           IF a.peer[pc] = "answered" \/ a.answering[pc] > 0
                           THEN a
                           ELSE cleanupCall(a, "Failed to process signaling event",
                                            "error", FALSE)
                      [] message.type = "hangup" ->
                           cleanupCall(a, "Kiosk disconnected", "idle", FALSE)
                      [] OTHER -> a

\* webrtc-client/src/index.ts:111-118 - the socket delivers an envelope
AgentMessage(j, message) ==
    /\ agent.socket[j] = "OPEN"
    /\ agent' = agentHandleSignalingMessage(AgentNow, message)

\* part_007:283-288, 293-301 - the operations that the handler of an offer
\* awaits settle: the answer is sent, or the catch block tears down
AnswerSettled(j, ok) ==
    /\ agent.answering[j] > 0
    /\ AgentLive(agent, j)
    /\ agent.signals < MaxSignals
    /\ agent' =
         IF ok
         THEN [agentSendSignal([AgentNow EXCEPT
                                   !.peer[j] = IF @ = "new" THEN "answered" ELSE @,
                                   !.answering[j] = @ - 1],
                               "answer", AnswerPayload(j))
                  EXCEPT !.callState = "connected"]
         ELSE cleanupCall(AgentNow, "Failed to process signaling event", "error", FALSE)

\* part_007:318-323 - a local candidate is found
AgentIceCandidate(j) ==
    /\ agent.peer[j] = "answered"
    /\ agent.signals < MaxSignals
    /\ agent' = agentSendSignal(AgentNow, "ice", CandidatePayload(j))

\* part_007:325-329 - connectionState becomes 'failed'
AgentConnectionFailed(j) ==
    /\ agent.peer[j] = "answered"
    /\ agent' = cleanupCall([AgentNow EXCEPT !.peer[j] = "failed"],
                            "Peer connection failed", "error", TRUE)

\* part_007:348-350 - the close event of a socket that has its onclose handler
AgentSocketClosed(j) ==
    /\ agent.socket[j] \in {"CONNECTING", "OPEN", "CLOSING"}
    /\ agent.onclose[j]
    /\ agent' = cleanupCall([AgentNow EXCEPT !.socket[j] = "CLOSED", !.onclose[j] = FALSE],
                            "Signaling channel closed", "error", FALSE)

\* part_007:371-377 - hangUp
hangUp ==
    /\ agent.callState # "idle"
    /\ agent.signals < MaxSignals
    /\ agent' = cleanupCall(agentSendSignal(AgentNow, "hangup", NoPayload),
                            NoError, "idle", TRUE)

(***************************************************************************)
(* The session that joins the two controllers (index.ts:138-231).  The     *)
(* requester runs its first start sequence, the agent its first join; the  *)
(* awaits of both succeed and no connection is lost on the way.            *)
(***************************************************************************)
CallInit ==
    net = [ \* the session in the registry: "none", "open", "gone"
            session |-> "none",
            \* whether the role's connection is a participant of the session
            attached |-> [r \in Roles |-> FALSE],
            \* whether the server has rejected and closed the role's connection
            closed |-> [r \in Roles |-> FALSE],
            \* the frames the role has written that the server has not read
            up |-> [r \in Roles |-> <<>>],
            \* the envelopes the server has written to the role's socket
            \* that its handler has not been given
            down |-> [r \in Roles |-> <<>>],
            \* history: who has ended the established call first
            ender |-> "none" ]

Other(role) == IF role = "vtm" THEN "agent" ELSE "vtm"

\* readyState of the role's socket at its client
ClientSocket(p, a, role) == IF role = "vtm" THEN p.socket[1] ELSE a.socket[1]

\* JSON.stringify(message) as JSON.parse of the server reads it
\* (index.ts:193): the type and the payload
WireFrame(message) == Frame("object", message.type, message.payload, Absent, Absent)

Written(sent) == [i \in 1..Len(sent) |-> WireFrame(sent[i].message)]

\* the frames a task of the role's controller has written go to the server;
\* a socket that is no longer open delivers nothing more
Link(n, role, sent, readyAfter) ==
    [n EXCEPT !.up[role] = @ \o Written(sent),
              !.down[role] = IF readyAfter \in {"CONNECTING", "OPEN"} THEN @ ELSE <<>>]

\* index.ts:108-121 - the server writes an envelope to the role's socket
Deliver(n, role, envelope) ==
    IF n.attached[role] /\ ClientSocket(panel, agent, role) \in {"CONNECTING", "OPEN"}
    THEN [n EXCEPT !.down[role] = Append(@, envelope)]
    ELSE n

\* index.ts:138-182 - the connection of the role is accepted: it is rejected
\* when the session is not in the registry, and attached otherwise
ServerConnect(role) ==
    LET count == IF net.attached[Other(role)] THEN 2 ELSE 1
    IN  /\ ClientSocket(panel, agent, role) = "CONNECTING"
        /\ ~net.attached[role]
        /\ ~net.closed[role]
        /\ net' =
             IF net.session # "open"
             THEN [net EXCEPT !.closed[role] = TRUE,
                              !.down[role] = Append(@, ErrorEnvelope)]
             ELSE Deliver([net EXCEPT !.attached[role] = TRUE,
                                      !.down[role] = Append(@, PrivatePeerUpdate(count))],
                          Other(role), PeerUpdate(role, count))
        /\ UNCHANGED <<panel, agent>>

\* index.ts:191-213 - the server reads a frame of the role and relays it
ServerFrame(role) ==
    /\ net.up[role] # <<>>
    /\ net' =
         LET raw == Head(net.up[role])
             n1 == [net EXCEPT !.up[role] = Tail(@)]
         IN  IF net.attached[role] /\ raw.type \in SignalingKinds
             THEN Deliver(n1, Other(role), Tagged(raw, role))
             ELSE n1
    /\ UNCHANGED <<panel, agent>>

\* index.ts:215-231 - the role's connection has closed: cleanup
ServerDetach(role) ==
    /\ net.attached[role]
    /\ ClientSocket(panel, agent, role) \in {"CLOSING", "CLOSED"}
    /\ net.up[role] = <<>>
    /\ net' =
         LET n1 == [net EXCEPT !.attached[role] = FALSE]
         IN  IF net.attached[Other(role)]
             THEN Deliver(n1, Other(role), HangupEnvelope(role))
             ELSE [n1 EXCEPT !.session = "gone"]
    /\ UNCHANGED <<panel, agent>>

\* a step of the requester's controller in the call
PanelTask == net' = Link(net, "vtm", panel'.sent, panel'.socket[1]) /\ UNCHANGED agent

\* a step of the agent's controller in the call
AgentTask == net' = Link(net, "agent", agent'.sent, agent'.socket[1]) /\ UNCHANGED panel

\* :363-374 - POST /sessions has put the session in the registry
CallSessionCreated ==
    /\ SessionCreated(1, "id")
    /\ net' = [net EXCEPT !.session = "open"]
    /\ UNCHANGED agent

\* the handshake of the role's socket is done
Accepted(role) == net.attached[role] \/ net.closed[role]

\* the requester's socket gives its handler the next envelope
CallPanelMessage(applies) ==
    /\ net.down["vtm"] # <<>>
    /\ SocketMessage(1, Head(net.down["vtm"]), applies)
    /\ net' = Link([net EXCEPT !.down["vtm"] = Tail(@)], "vtm", panel'.sent, panel'.socket[1])
    /\ UNCHANGED agent

\* the agent's socket gives its handler the next envelope
CallAgentMessage ==
    /\ net.down["agent"] # <<>>
    /\ AgentMessage(1, Head(net.down["agent"]))
    /\ net' = Link([net EXCEPT !.down["agent"] = Tail(@)], "agent", agent'.sent, agent'.socket[1])
    /\ UNCHANGED panel

\* both controllers show the call as connected
Established == panel.callState = "connected" /\ agent.callState = "connected"

\* "End session" at the requester
CallEnd ==
    /\ endLiveAgentSession
    /\ net' = [Link(net, "vtm", panel'.sent, panel'.socket[1])
                  EXCEPT !.ender = IF @ = "none" /\ Established THEN "vtm" ELSE @]
    /\ UNCHANGED agent

\* "Hang up" at the agent
CallHangUp ==
    /\ hangUp
    /\ net' = [Link(net, "agent", agent'.sent, agent'.socket[1])
                  EXCEPT !.ender = IF @ = "none" /\ Established THEN "agent" ELSE @]
    /\ UNCHANGED panel

\* The two controllers, their users and browsers, and the server.
NextCall ==
    \/ panel.started = 0 /\ startLiveAgentSession /\ PanelTask /\ UNCHANGED restOfCall
    \/ CallSessionCreated /\ UNCHANGED restOfCall
    \/ TicketSettled(1, TRUE, TRUE) /\ PanelTask /\ UNCHANGED restOfCall
    \/ CameraSettled(1, TRUE) /\ PanelTask /\ UNCHANGED restOfCall
    \/ ScreenSettled(1, TRUE) /\ PanelTask /\ UNCHANGED restOfCall
    \/ Accepted("vtm") /\ SocketOpen(1) /\ PanelTask /\ UNCHANGED restOfCall
    \/ OfferCreated(1) /\ PanelTask /\ UNCHANGED restOfCall
    \/ LocalDescriptionSet(1) /\ PanelTask /\ UNCHANGED restOfCall
    \/ IceCandidate(1) /\ PanelTask /\ UNCHANGED restOfCall
    \/ /\ \E state \in {"connected", "disconnected", "failed"} :
             /\ state = "connected" => agent.peer[1] = "answered"
             /\ ConnectionStateChange(1, state)
       /\ PanelTask
       /\ UNCHANGED restOfCall
    \/ /\ net.down["vtm"] # <<>>
       /\ \E applies \in Settles(Head(net.down["vtm"])) : CallPanelMessage(applies)
       /\ UNCHANGED restOfCall
    \/ /\ net.closed["vtm"] /\ net.down["vtm"] = <<>>
       /\ SocketClosed(1)
       /\ PanelTask
       /\ UNCHANGED restOfCall
    \/ CallEnd /\ UNCHANGED restOfCall
    \/ net.session # "none" /\ joinSession(1, TRUE) /\ AgentTask /\ UNCHANGED restOfCall
    \/ AgentCameraSettled(1, TRUE) /\ AgentTask /\ UNCHANGED restOfCall
    \/ Accepted("agent") /\ AgentSocketOpen(1) /\ AgentTask /\ UNCHANGED restOfCall
    \/ CallAgentMessage /\ UNCHANGED restOfCall
    \/ (\E ok \in BOOLEAN : AnswerSettled(1, ok)) /\ AgentTask /\ UNCHANGED restOfCall
    \/ AgentIceCandidate(1) /\ AgentTask /\ UNCHANGED restOfCall
    \/ AgentConnectionFailed(1) /\ AgentTask /\ UNCHANGED restOfCall
    \/ /\ net.closed["agent"] /\ net.down["agent"] = <<>>
       /\ AgentSocketClosed(1)
       /\ AgentTask
       /\ UNCHANGED restOfCall
    \/ CallHangUp /\ UNCHANGED restOfCall
    \/ (\E role \in Roles : ServerConnect(role)) /\ UNCHANGED restOfCall
    \/ (\E role \in Roles : ServerFrame(role)) /\ UNCHANGED restOfCall
    \/ (\E role \in Roles : ServerDetach(role)) /\ UNCHANGED restOfCall

(***************************************************************************)
(* Part V.  The annotation overlay of the requester                        *)
(* (LiveAgentAssistPanel.tsx:94-110, 227-263): the `annotations` state,    *)
(* the handler of the annotation data channel and the expiry sweep.  Time  *)
(* is counted in units of 500 ms.                                          *)
(***************************************************************************)
\* :106 - the period of the sweep, 2000 ms
SweepPeriod == 4

\* types/annotations - DEFAULT_ANNOTATION_TTL, 20000 ms
DEFAULT_ANNOTATION_TTL == 40

\* the ids of the drawing gestures (crypto.randomUUID(), part_005:46)
AnnotationIds == {"a", "b"}

\* an optional number: the empty sequence when it is omitted
Omitted == <<>>

\* the ttlMs of a message: omitted, or 3000 ms
TtlParams == {Omitted, <<6>>}

\* AnnotationShape
Shapes == {"circle", "arrow"}

\* what JSON.parse(payload) yields (:230): `json` as for the frames of Part I
ChannelMessage(json, kind, id, shape, ttlMs, targetId) ==
    [json |-> json, kind |-> kind, id |-> id, shape |-> shape, ttlMs |-> ttlMs,
     targetId |-> targetId]

NoChannelMessage == ChannelMessage("none", Absent, Absent, Absent, Omitted, Absent)

\* { kind: 'annotation', id, shape, ttlMs? }
DrawMessages ==
    { ChannelMessage("object", "annotation", id, shape, ttlMs, Absent) :
        id \in AnnotationIds, shape \in Shapes, ttlMs \in TtlParams }

\* { kind: 'clear', targetId? }
ClearMessages ==
    { ChannelMessage("object", "clear", Absent, Absent, Omitted, targetId) :
        targetId \in AnnotationIds \cup {Absent} }

\* what the data channel can deliver: the two kinds, an object of another
\* kind, the text `null`, and a text that is no JSON
ChannelMessages ==
    DrawMessages \cup ClearMessages \cup
    { ChannelMessage("object", "bogus", Absent, Absent, Omitted, Absent),
      ChannelMessage("null", Absent, Absent, Absent, Omitted, Absent),
      ChannelMessage("malformed", Absent, Absent, Absent, Omitted, Absent) }

\* the handler the overlay has run last, its message, and the `annotations`
\* it found
OverlayOp(op, message, prev) == [op |-> op, message |-> message, prev |-> prev]

OverlayInit ==
    /\ annotations = <<>>                               \* :49
    /\ now = 0
    /\ sweepAt = 0
    /\ delivered = 0
    /\ overlayOp = OverlayOp("none", NoChannelMessage, <<>>)

\* :241-246 - the RenderableAnnotation of a message received at time t
Entry(message, t) ==
    [id |-> message.id, shape |-> message.shape,
     ttlMs |-> IF message.ttlMs = Omitted THEN DEFAULT_ANNOTATION_TTL
               ELSE message.ttlMs[1],
     createdAt |-> t]

\* an upsert that does not remove the entry of the same id
UpsertKeepsEarlier(prev, entry) == Append(prev, entry)

\* :247-252 - the updater of an annotation message
Upsert(prev, entry) ==
    Append(SelectSeq(prev, LAMBDA annotation : annotation.id # entry.id), entry)

\* a clear that ignores its targetId
ClearEverything(prev, message) == <<>>

\* :257-261 - the updater of a clear message
Clear(prev, message) ==
    IF message.targetId # Absent
    THEN SelectSeq(prev, LAMBDA annotation : annotation.id # message.targetId)
    ELSE <<>>

\* :99-105 - the updater of the sweep at time t
Sweep(prev, t) ==
    SelectSeq(prev, LAMBDA annotation : t - annotation.createdAt < annotation.ttlMs)

\* :227-263 - processAnnotationJson at time t: the next `annotations`
processAnnotationJson(prev, message, t) ==
    IF message.json = "malformed" THEN prev            \* JSON.parse throws (:231)
    ELSE IF message.json = "null" THEN prev            \* !message (:236)
    ELSE IF message.kind = "annotation" THEN Upsert(prev, Entry(message, t))
    ELSE IF message.kind = "clear" THEN Clear(prev, message)
    ELSE prev

\* :94-110 - the effect on [annotations.length], run after a render at time
\* t: when the length has changed the interval is cleared and, unless the
\* collection is empty, started again; otherwise it runs on
Rearm(prev, next, t) ==
    IF Len(next) = Len(prev) THEN sweepAt
    ELSE IF Len(next) = 0 THEN 0
    ELSE t + SweepPeriod

\* :265-289 - the data channel delivers a message
AnnotationMessage(message) ==
    /\ delivered < MaxAnnotationMessages
    /\ LET next == processAnnotationJson(annotations, message, now)
       IN  /\ annotations' = next
           /\ sweepAt' = Rearm(annotations, next, now)
    /\ delivered' = delivered + 1
    /\ overlayOp' = OverlayOp("message", message, annotations)
    /\ UNCHANGED now

\* :98-106 - the interval fires
SweepTick ==
    /\ sweepAt # 0
    /\ now = sweepAt
    /\ LET next == Sweep(annotations, now)
       IN  /\ annotations' = next
           /\ sweepAt' = IF Len(next) = 0 THEN 0 ELSE now + SweepPeriod
    /\ overlayOp' = OverlayOp("sweep", NoChannelMessage, annotations)
    /\ UNCHANGED <<now, delivered>>

\* :179 - setAnnotations([]) of cleanupLiveAgent
AnnotationsReset ==
    /\ annotations' = <<>>
    /\ sweepAt' = Rearm(annotations, <<>>, now)
    /\ overlayOp' = OverlayOp("reset", NoChannelMessage, annotations)
    /\ UNCHANGED <<now, delivered>>

\* 500 ms pass; a timer that is due fires first.  The overlay reads the
\* clock only to compare it with the createdAt of an entry, so the time that
\* passes while the collection is empty is not counted.
TimePasses ==
    /\ now < MaxTime
    /\ annotations # <<>>
    /\ sweepAt = 0 \/ now < sweepAt
    /\ now' = now + 1
    /\ overlayOp' = OverlayOp("time", NoChannelMessage, annotations)
    /\ UNCHANGED <<annotations, sweepAt, delivered>>

\* The overlay, its data channel and its clock.
NextOverlay ==
    \/ (\E message \in ChannelMessages : AnnotationMessage(message)) /\ UNCHANGED restOfOverlay
    \/ SweepTick /\ UNCHANGED restOfOverlay
    \/ AnnotationsReset /\ UNCHANGED restOfOverlay
    \/ TimePasses /\ UNCHANGED restOfOverlay

(***************************************************************************)
(* Part VI.  The agents' dashboards: useTicketWebSocket (part_007:26-120), *)
(* the page that uses it (home.tsx) and the buttons of the ticket's modal  *)
(* (TicketDetailModal.tsx:171-202), joined to the ticket broker of Part    *)
(* III.  Dashboard d is the page whose socket the broker accepts as its    *)
(* d-th connection.                                                        *)
(***************************************************************************)
\* types/ticket.ts - enum TicketStatus
PENDING == "pending"
IN_PROGRESS == "in-progress"
RESOLVED == "resolved"

\* the ids crypto.randomUUID() gives the tickets of the kiosks
\* (src/lib/live-agent.ts:35): no two are the same
TicketNames == <<"t1", "t2", "t3", "t4">>

\* src/lib/live-agent.ts:34-39 - the ticket the kiosk posts with its r-th
\* request: a new id, the time, and all the fields of the payload
KioskTicket(r) == TicketDoc("object", TicketNames[r], "string", "full", "ts")

\* A Ticket object on a dashboard (types/ticket.ts): its id, its status,
\* and whether it has a sessionId.  The kiosk posts status 'pending'
\* (live-agent.ts:37) and the sessionId with the other fields.
Ticket(id, status, sessionId) == [id |-> id, status |-> status, sessionId |-> sessionId]

NoTicket == Ticket(Absent, Absent, FALSE)

\* what JSON.parse gives for the `ticket` of a new_ticket message
TicketOf(doc) ==
    Ticket(doc.id, IF doc.fields = "full" THEN PENDING ELSE Absent, doc.fields = "full")

\* part_007:39-42 - the frame onopen writes
Identify == DashFrame("object", "identify", Absent, Absent, Absent)

\* part_007:100-104 - the frame updateTicketStatus writes
UpdateTicketStatusFrame(ticketId, status) ==
    DashFrame("object", "update_ticket_status", ticketId, "string", status)

DeskInit ==
    /\ tickets = [d \in Dashboards |-> <<>>]                  \* part_007:27
    /\ websocket = [d \in Dashboards |-> "NONE"]
    /\ isConnected = [d \in Dashboards |-> FALSE]             \* part_007:28
    /\ selectedTicket = [d \in Dashboards |-> NoTicket]       \* home.tsx:15
    /\ joining = [d \in Dashboards |-> Absent]
    /\ wire = [up |-> [d \in Dashboards |-> <<>>],
               down |-> [d \in Dashboards |-> <<>>],
               cut |-> [d \in Dashboards |-> FALSE]]
    /\ clicks = 0

\* the messages among the writes `out` of a broker handler that go to
\* dashboard d, in order
MessagesTo(out, d) ==
    LET sends == SelectSeq(out, LAMBDA s : s.kind = "send" /\ s.to = d)
    IN  [i \in 1..Len(sends) |-> sends[i].msg]

\* the wires after a broker handler has written `out`: a socket delivers
\* in order; what is written to a connection that is cut is lost
Carry(w, out) ==
    [w EXCEPT !.down = [d \in Dashboards |->
                           IF w.cut[d] THEN <<>> ELSE w.down[d] \o MessagesTo(out, d)]]

\* part_007:58-62, :92-94 - prev.map(t => t.id === ticketId ? {...t, status} : t)
SetStatus(prev, ticketId, status) ==
    [i \in 1..Len(prev) |->
        IF prev[i].id = ticketId THEN [prev[i] EXCEPT !.status = status] ELSE prev[i]]

\* part_007:46-69 - what onmessage makes of `tickets`: data.ticket.id.slice
\* and data.ticketId.slice throw on an id that is no string, and the catch
\* (:66-68) leaves the state as it is
OnMessage(prev, data) ==
    IF data.type = "new_ticket" /\ data.ticket.json = "object" /\ data.ticket.idType = "string"
    THEN <<TicketOf(data.ticket)>> \o prev
    ELSE IF data.type = "update_ticket" /\ data.ticketId # Absent
         THEN SetStatus(prev, data.ticketId, data.status)
         ELSE prev

\* a step of the broker as the dashboards see it: what the handler has
\* written is on the wires
BrokerTask ==
    /\ wire' = Carry(wire, brokerOut')
    /\ UNCHANGED <<tickets, websocket, isConnected, selectedTicket, joining, clicks>>

\* part_007:30-33 - the page mounts, the effect makes the WebSocket, and
\* the broker accepts it (part_008:130-161)
DeskMount ==
    /\ nextDash < MaxDesks
    /\ DashConnect
    /\ websocket' = [websocket EXCEPT ![nextDash'] = "CONNECTING"]
    /\ wire' = Carry(wire, brokerOut')
    /\ UNCHANGED <<tickets, isConnected, selectedTicket, joining, clicks>>

\* part_007:35-44 - websocket.onopen
DeskOpen(d) ==
    /\ websocket[d] = "CONNECTING"
    /\ ~wire.cut[d]
    /\ websocket' = [websocket EXCEPT ![d] = "OPEN"]
    /\ isConnected' = [isConnected EXCEPT ![d] = TRUE]
    /\ wire' = [wire EXCEPT !.up[d] = Append(@, Identify)]
    /\ UNCHANGED <<tickets, selectedTicket, joining, clicks>>
    /\ UNCHANGED brokerVars

\* part_008:163-183 - the broker's ws.on('message') gets the frame that
\* dashboard d has written first
DeskFrame(d) ==
    /\ wire.up[d] # <<>>
    /\ DashMessage(d, Head(wire.up[d]))
    /\ wire' = Carry([wire EXCEPT !.up[d] = Tail(@)], brokerOut')
    /\ UNCHANGED <<tickets, websocket, isConnected, selectedTicket, joining, clicks>>

\* part_007:46-69 - websocket.onmessage
DeskMessage(d) ==
    /\ websocket[d] = "OPEN"
    /\ wire.down[d] # <<>>
    /\ tickets' = [tickets EXCEPT ![d] = OnMessage(@, Head(wire.down[d]))]
    /\ wire' = [wire EXCEPT !.down[d] = Tail(@)]
    /\ UNCHANGED <<websocket, isConnected, selectedTicket, joining, clicks>>
    /\ UNCHANGED brokerVars

\* the connection of dashboard d breaks: what is in flight is lost, and
\* neither end has been told yet
LinkCut(d) ==
    /\ websocket[d] \in {"CONNECTING", "OPEN"}
    /\ ~wire.cut[d]
    /\ Cardinality({c \in Dashboards : wire.cut[c]}) < MaxCuts
    /\ wire' = [wire EXCEPT !.cut[d] = TRUE, !.up[d] = <<>>, !.down[d] = <<>>]
    /\ UNCHANGED <<tickets, websocket, isConnected, selectedTicket, joining, clicks>>
    /\ UNCHANGED brokerVars

\* the broker's end of a broken connection: readyState CLOSING, 'error',
\* 'close' (part_008:185-193)
BrokerEnd(d) ==
    /\ wire.cut[d]
    /\ DashClosing(d) \/ DashError(d) \/ DashClose(d)
    /\ UNCHANGED deskVars

\* part_007:71-74 - websocket.onerror
DeskError(d) ==
    /\ wire.cut[d]
    /\ websocket[d] \in {"CONNECTING", "OPEN"}
    /\ isConnected[d]
    /\ isConnected' = [isConnected EXCEPT ![d] = FALSE]
    /\ UNCHANGED <<tickets, websocket, selectedTicket, joining, wire, clicks>>
    /\ UNCHANGED brokerVars

\* part_007:76-79 - websocket.onclose
DeskClose(d) ==
    /\ wire.cut[d]
    /\ websocket[d] \in {"CONNECTING", "OPEN"}
    /\ websocket' = [websocket EXCEPT ![d] = "CLOSED"]
    /\ isConnected' = [isConnected EXCEPT ![d] = FALSE]
    /\ UNCHANGED <<tickets, selectedTicket, joining, wire, clicks>>
    /\ UNCHANGED brokerVars

\* home.tsx:191 - a click on the i-th card: setSelectedTicket(ticket)
SelectTicket(d, i) ==
    /\ i \in 1..Len(tickets[d])
    /\ selectedTicket[d] # tickets[d][i]
    /\ selectedTicket' = [selectedTicket EXCEPT ![d] = tickets[d][i]]
    /\ UNCHANGED <<tickets, websocket, isConnected, joining, wire, clicks>>
    /\ UNCHANGED brokerVars

\* home.tsx:202 - onClose of the modal
CloseModal(d) ==
    /\ selectedTicket[d] # NoTicket
    /\ selectedTicket' = [selectedTicket EXCEPT ![d] = NoTicket]
    /\ UNCHANGED <<tickets, websocket, isConnected, joining, wire, clicks>>
    /\ UNCHANGED brokerVars

\* an update that changes the dashboard's own list and writes no frame
updateTicketStatusLocally(d, ticketId, status) ==
    /\ tickets' = [tickets EXCEPT ![d] = SetStatus(@, ticketId, status)]
    /\ wire' = wire

\* part_007:89-108 - updateTicketStatus: the new `tickets` of dashboard d
\* and the wires; the frame is written when readyState is OPEN
updateTicketStatus(d, ticketId, status) ==
    /\ tickets' = [tickets EXCEPT ![d] = SetStatus(@, ticketId, status)]
    /\ wire' = IF websocket[d] = "OPEN" /\ ~wire.cut[d]
               THEN [wire EXCEPT !.up[d] = Append(@, UpdateTicketStatusFrame(ticketId, status))]
               ELSE wire

\* TicketDetailModal.tsx:173-184, home.tsx:39-46 - "Start Working", on the
\* ticket object the modal holds, up to the await of joinSession
StartWorking(d) ==
    /\ selectedTicket[d] # NoTicket
    /\ selectedTicket[d].status # IN_PROGRESS
    /\ joining[d] = Absent
    /\ clicks < MaxClicks
    /\ clicks' = clicks + 1
    /\ joining' = [joining EXCEPT ![d] =
                      IF selectedTicket[d].sessionId THEN selectedTicket[d].id ELSE Absent]
    /\ UNCHANGED <<tickets, websocket, isConnected, selectedTicket, wire>>
    /\ UNCHANGED brokerVars

\* home.tsx:46-55 - joinSession has settled: resolved, or rejected
JoinSettled(d, resolved) ==
    /\ joining[d] # Absent
    /\ joining' = [joining EXCEPT ![d] = Absent]
    /\ IF resolved
       THEN updateTicketStatus(d, joining[d], IN_PROGRESS)
       ELSE UNCHANGED <<tickets, wire>>
    /\ UNCHANGED <<websocket, isConnected, selectedTicket, clicks>>
    /\ UNCHANGED brokerVars

\* TicketDetailModal.tsx:186-200, home.tsx:60-69 - "Mark as Resolved"
MarkResolved(d) ==
    /\ selectedTicket[d] # NoTicket
    /\ selectedTicket[d].status # RESOLVED
    /\ clicks < MaxClicks
    /\ clicks' = clicks + 1
    /\ updateTicketStatus(d, selectedTicket[d].id, RESOLVED)
    /\ UNCHANGED <<websocket, isConnected, selectedTicket, joining>>
    /\ UNCHANGED brokerVars

\* The dashboards with the broker and the kiosks that post tickets.
NextDesk ==
    \/ /\ \E r \in 1..MaxTickets : RequestBegin(r, "POST", "/api/ticket", KioskTicket(r))
       /\ BrokerTask /\ UNCHANGED restOfDesk
    \/ (\E r \in Requests : RequestData(r)) /\ BrokerTask /\ UNCHANGED restOfDesk
    \/ (\E r \in Requests : RequestEnd(r)) /\ BrokerTask /\ UNCHANGED restOfDesk
    \/ DeskMount /\ UNCHANGED restOfDesk
    \/ (\E d \in Dashboards : DeskOpen(d)) /\ UNCHANGED restOfDesk
    \/ (\E d \in Dashboards : DeskFrame(d)) /\ UNCHANGED restOfDesk
    \/ (\E d \in Dashboards : DeskMessage(d)) /\ UNCHANGED restOfDesk
    \/ (\E d \in Dashboards : LinkCut(d)) /\ UNCHANGED restOfDesk
    \/ (\E d \in Dashboards : BrokerEnd(d)) /\ UNCHANGED restOfDesk
    \/ (\E d \in Dashboards : DeskError(d)) /\ UNCHANGED restOfDesk
    \/ (\E d \in Dashboards : DeskClose(d)) /\ UNCHANGED restOfDesk
    \/ (\E d \in Dashboards, i \in 1..MaxTickets : SelectTicket(d, i)) /\ UNCHANGED restOfDesk
    \/ (\E d \in Dashboards : CloseModal(d)) /\ UNCHANGED restOfDesk
    \/ (\E d \in Dashboards : StartWorking(d)) /\ UNCHANGED restOfDesk
    \/ (\E d \in Dashboards, resolved \in BOOLEAN : JoinSettled(d, resolved)) /\ UNCHANGED restOfDesk
    \/ (\E d \in Dashboards : MarkResolved(d)) /\ UNCHANGED restOfDesk

(***************************************************************************)
(* Specifications.                                                         *)
(***************************************************************************)
Init ==
    /\ ServerInit /\ PanelInit /\ BrokerInit /\ AgentInit /\ CallInit
    /\ OverlayInit /\ DeskInit

ServerNext(track) ==
    \/ CreateSession /\ UNCHANGED restOfServer
    \/ GetSessions /\ UNCHANGED restOfServer
    \/ (\E id \in SessionIds : DeleteSession(id)) /\ UNCHANGED restOfServer
    \/ (\E s \in SessionParams, r \in RoleParams : Connect(s, r)) /\ UNCHANGED restOfServer
    \/ (\E c \in Conns, raw \in Frames : ClientFrame(c, raw, track)) /\ UNCHANGED restOfServer
    \/ (\E c \in Conns : BeginClose(c)) /\ UNCHANGED restOfServer
    \/ (\E c \in Conns : SocketError(c)) /\ UNCHANGED restOfServer
    \/ (\E c \in Conns : SocketClose(c)) /\ UNCHANGED restOfServer
    \/ (\E c \in Conns : HeartbeatTick(c)) /\ UNCHANGED restOfServer
    \/ EndOfTurn /\ UNCHANGED restOfServer

\* the signaling server and its clients
Next == ServerNext(FALSE)

Spec == Init /\ [][Next]_vars

\* the server with the history of dropped frames recorded
NextDrop == ServerNext(TRUE)

SpecDrop == Init /\ [][NextDrop]_vars

\* the signaling server when nanoid may yield any id, one in use included
NextIds ==
    \/ (\E sessionId \in SessionIds : PostSessions(sessionId)) /\ UNCHANGED restOfServer
    \/ GetSessions /\ UNCHANGED restOfServer
    \/ (\E id \in SessionIds : DeleteSession(id)) /\ UNCHANGED restOfServer
    \/ (\E s \in SessionParams, r \in RoleParams : Connect(s, r)) /\ UNCHANGED restOfServer
    \/ (\E c \in Conns, raw \in Frames : ClientFrame(c, raw, FALSE)) /\ UNCHANGED restOfServer
    \/ (\E c \in Conns : BeginClose(c)) /\ UNCHANGED restOfServer
    \/ (\E c \in Conns : SocketError(c)) /\ UNCHANGED restOfServer
    \/ (\E c \in Conns : SocketClose(c)) /\ UNCHANGED restOfServer
    \/ (\E c \in Conns : HeartbeatTick(c)) /\ UNCHANGED restOfServer
    \/ EndOfTurn /\ UNCHANGED restOfServer

SpecIds == Init /\ [][NextIds]_vars

\* the requester's controller, its user, its browser and its server
NextCtl == PanelNext({TRUE}, Starts)

SpecCtl == Init /\ [][NextCtl]_vars

\* the requester's controller when createLiveAgentTicket and createScreenStream
\* can fail
NextDegraded == PanelNext(BOOLEAN, 1..MaxDegraded)

SpecDegraded == Init /\ [][NextDegraded]_vars

\* the ticket broker, its kiosks and its dashboards
SpecBroker == Init /\ [][NextBroker]_vars

\* a call between the requester and the agent
SpecCall == Init /\ [][NextCall]_vars

\* the annotation overlay of the requester
SpecOverlay == Init /\ [][NextOverlay]_vars

\* the dashboards, the ticket broker and the kiosks
SpecDesk == Init /\ [][NextDesk]_vars

(***************************************************************************)
(* Properties of the signaling server.                                     *)
(***************************************************************************)
\* the elements of a sequence
Range(s) == { s[i] : i \in 1..Len(s) }

\* the connections attached to session s and not yet detached
AttachedTo(s) == { c \in Conns : connState[c] = "attached" /\ connSession[c] = s }

\* the connection and the session of the current turn
TurnConn == lastOp.conn
TurnSession == lastOp.sid

\* the current turn ran cleanup (the socket still had its listeners)
TurnDetached == lastOp.op \in {"close", "error"} /\ lastOp.sid # 0

\* the current turn attached a connection
TurnAttached == lastOp.op = "connect" /\ connState[lastOp.conn] = "attached"

\* the current turn relayed a frame
TurnRelayed == lastOp.op = "message" /\ lastOp.frame.type \in SignalingKinds

Recipients == { lastSends[i].to : i \in 1..Len(lastSends) }

\* the participants of session s other than c whose socket is open
OpenOthers(s, c) == { p \in Range(participants[s]) \ {c} : readyState[p] = "OPEN" }

\* C1: in every reachable state, each entry of GET /sessions reports as
\* participantCount the number of connections that attached to that session and
\* have not detached.
C1_ParticipantCount ==
    \A entry \in ListSessions :
        entry.participantCount = Cardinality(AttachedTo(entry.id))

C1_Witness ==
    /\ lastOp.op = "list"
    /\ \E entry \in ListSessions : entry.participantCount = 2
    /\ \E c \in Conns : connState[c] = "detached"

\* C2: whatever a turn sends when it relays a frame or when it generates the
\* hangup of a detaching connection goes to participants of that connection's
\* session other than the connection itself.
C2_NoEcho ==
    (lastOp.op = "message" \/ TurnDetached) =>
        \A i \in 1..Len(lastSends) :
            /\ lastSends[i].to # TurnConn
            /\ lastSends[i].to \in AttachedTo(TurnSession) \ {TurnConn}

C2_Witness ==
    /\ TurnRelayed
    /\ Len(lastSends) = 1
    /\ \E c \in Conns :
          connState[c] = "attached" /\ readyState[c] = "OPEN" /\ connSession[c] # TurnSession

\* C3: once the last participant of a session has detached, the session id is
\* not in the registry, and a connection that presents it is sent the
\* 'Session not found' error, is closed and is not registered.
C3_GoneAfterLastDetach ==
    \A s \in emptied :
        /\ s \notin sessions
        /\ (lastOp.op = "connect" /\ lastOp.sid = s) =>
              /\ connState[TurnConn] = "rejected"
              /\ lastSends = <<Send(TurnConn, ErrorEnvelope)>>
              /\ \A t \in SessionIds : TurnConn \notin Range(participants[t])

C3_Witness ==
    /\ lastOp.op = "connect"
    /\ lastOp.sid \in emptied
    /\ connState[TurnConn] = "rejected"

\* C4: a connection that opens with a missing or unknown sessionId is sent
\* exactly one error envelope and is closed; the turn leaves the registry, the
\* participant Maps, the timers and the listeners as they were and sends
\* nothing to anyone else; the connection is in no session afterwards.
C4_RejectedStep ==
    (lastOp'.op = "connect" /\ (lastOp'.sid = 0 \/ lastOp'.sid \notin sessions)) =>
        /\ lastSends' = <<Send(lastOp'.conn, ErrorEnvelope)>>
        /\ readyState'[lastOp'.conn] = "CLOSING"
        /\ connState'[lastOp'.conn] = "rejected"
        /\ sessions' = sessions
        /\ participants' = participants
        /\ heartbeat' = heartbeat
        /\ listeners' = listeners
        /\ \A t \in SessionIds : lastOp'.conn \notin Range(participants'[t])

C4_Rejected == [][C4_RejectedStep]_vars

C4_Witness ==
    /\ lastOp.op = "connect"
    /\ lastOp.sid # 0
    /\ connState[TurnConn] = "rejected"
    /\ \E c \in Conns : connState[c] = "attached" /\ readyState[c] = "OPEN"

\* what an attaching turn sends: first the private peer-update to the joiner,
\* then one peer-update with the same count and the joiner's role to each
\* connection of `others`, and nothing else
AttachSends(others) ==
    LET n == Len(participants[TurnSession])
    IN  /\ Len(lastSends) = 1 + Cardinality(others)
        /\ lastSends[1] = Send(TurnConn, PrivatePeerUpdate(n))
        /\ TurnConn \in Range(participants[TurnSession])
        /\ n = Cardinality(AttachedTo(TurnSession))
        /\ { lastSends[i].to : i \in 2..Len(lastSends) } = others
        /\ \A i \in 2..Len(lastSends) :
              lastSends[i].env = PeerUpdate(lastOp.role, n)

\* C5 as stated: on every attach the joiner gets its private peer-update first
\* and then every other participant of the session gets the peer-update.
C5_AsStated ==
    TurnAttached => AttachSends(Range(participants[TurnSession]) \ {TurnConn})

\* C5, amended: on every attach the joiner gets its private peer-update first
\* and then every other participant of the session whose socket is open gets a
\* peer-update with the same count; the turn sends nothing else.
C5_PrivateThenOthers ==
    TurnAttached => AttachSends(OpenOthers(TurnSession, TurnConn))

C5_Witness ==
    /\ TurnAttached
    /\ Len(lastSends) = 2
    /\ Cardinality(Range(participants[TurnSession])) = 3

\* C6 as stated: when a connection detaches, every remaining participant of
\* its session with an open socket is sent a hangup tagged with the leaver's
\* role, and the session is in the directory exactly if a participant remains.
C6_DetachHangup ==
    TurnDetached =>
        /\ Recipients = OpenOthers(TurnSession, TurnConn)
        /\ Len(lastSends) = Cardinality(Recipients)
        /\ \A i \in 1..Len(lastSends) : lastSends[i].env = HangupEnvelope(lastOp.role)
        /\ (TurnSession \in sessions) <=> (participants[TurnSession] # <<>>)

\* C7: every envelope a relaying turn sends carries the role the connection
\* declared at its handshake, and the turn sends the same envelopes to the same
\* connections whatever senderRole the client wrote in the frame.
C7_SenderRoleFromHandshake ==
    lastOp.op = "message" =>
        /\ \A i \in 1..Len(lastSends) :
              lastSends[i].env.senderRole = connRole[TurnConn]
        /\ \A r \in RoleParams :
              Relay(TurnConn, [lastOp.frame EXCEPT !.senderRole = r]) = lastSends

C7_Witness ==
    /\ TurnRelayed
    /\ lastOp.frame.senderRole \notin {Absent, connRole[TurnConn]}
    /\ Len(lastSends) = 2

\* what a relaying turn sends for a well-formed frame of a relayed kind: the
\* frame, tagged with the connection's role, once to every other participant
\* of the session whose socket is open
RelaySends ==
    /\ Recipients = OpenOthers(TurnSession, TurnConn)
    /\ Len(lastSends) = Cardinality(Recipients)
    /\ \A i \in 1..Len(lastSends) :
          lastSends[i].env = Envelope(lastOp.frame.type, lastOp.frame.payload,
                                      lastOp.role, lastOp.frame.extra)

\* C8: a turn on a frame that is not well-formed JSON sends nothing and changes
\* neither the registry nor any participant Map, socket, listener or timer; a
\* connection that has had such a frame dropped is still attached, and its
\* later well-formed frames of a relayed kind are relayed.
C8_MalformedStep ==
    /\ (lastOp'.op = "message" /\ lastOp'.frame.json = "malformed") =>
          /\ lastSends' = <<>>
          /\ UNCHANGED <<sessions, participants, readyState, connState,
                         connSession, connRole, listeners, heartbeat>>
          /\ connState'[lastOp'.conn] = "attached"
          /\ lastOp'.conn \in Range(participants'[lastOp'.sid])
    /\ \A c \in dropped' : connState'[c] = "attached" /\ listeners'[c]
    /\ (lastOp'.op = "message" /\ lastOp'.conn \in dropped /\ TurnRelayed'
          /\ lastOp'.sid \in sessions) => RelaySends'

C8_MalformedDropped == [][C8_MalformedStep]_vars

C8_Witness ==
    /\ TurnRelayed
    /\ TurnConn \in dropped
    /\ Len(lastSends) >= 1

(***************************************************************************)
(* Properties of the requester's controller.                               *)
(***************************************************************************)
\* the messages of `queue` among the socket.send calls `calls` on socket k,
\* in the order of the calls
SentOf(calls, k, queue) ==
    LET Hit(e) == e.to = k /\ e.message \in Range(queue)
        hits == SelectSeq(calls, Hit)
    IN  [i \in 1..Len(hits) |-> hits[i].message]

\* C9 - when a signaling socket opens, the messages that were handed to
\* sendSignal while it was the controller's socket and not yet open are sent
\* on it by the task of the open event (hence before any message submitted
\* later, the initial offer included), in the order of their submission, each
\* exactly once, none lost.
C9_QueuedSentAtOpen ==
    [][\A k \in Starts :
          SocketOpen(k) => SentOf(panel'.sent, k, panel.awaiting[k]) = panel.awaiting[k]]_vars

\* the handler hands exactly one message to sendSignal, an offer with
\* `payload`, which is sent on the socket in wsRef or queued
Resent(payload) ==
    LET message == Signal("offer", payload, panel.signals + 1)
    IN  /\ panel'.signals = panel.signals + 1
        /\ \/ panel'.sent = <<[to |-> panel.wsRef, message |-> message]>>
           \/ /\ panel'.sent = <<>>
              /\ panel'.pendingSignalsRef = Append(panel.pendingSignalsRef, message)

\* C10 - a peer-update that reports a participant count increased by the
\* joining of an agent, received after an offer has been created and sent
\* and while no offer is in the making, makes the controller re-send the content of the offer it created last and
\* create no offer; a peer-update received when no offer has been created, or
\* whose joiner is not an agent, makes it send nothing.
C10_ResendsLastCreated ==
    [][\A k \in Starts, message \in ServerEnvelopes :
          (SocketMessage(k, message, TRUE) /\ IsPeerUpdate(message)) =>
              /\ ( /\ panel.created # 0
                   /\ panel.sentOffer # 0
                   /\ \A j \in Starts : panel.offerOp[j] = "none"
                   /\ message.senderRole = "agent"
                   /\ message.payload.val > panel.participantCount )
                 => /\ Resent(OfferPayload(panel.created))
                    /\ panel'.created = panel.created
                    /\ panel'.offerOp = panel.offerOp
              /\ (panel.created = 0 \/ message.senderRole # "agent")
                 => /\ panel'.signals = panel.signals
                    /\ panel'.sent = <<>>
                    /\ panel'.pendingSignalsRef = panel.pendingSignalsRef]_vars

LivePeers == { k \in Starts : Live(panel, k) }
LiveTracks == { k \in Starts : panel.camera[k] = "live" \/ panel.screen[k] = "live" }
OpenSockets == { k \in Starts : panel.socket[k] \in {"CONNECTING", "OPEN"} }

\* C12 - from a local hangup until the next press of the start button the
\* controller is idle, has no peer connection, no local stream, no
\* signaling socket and no session id, its pending queue is empty, and no
\* peer connection, media track or socket of its own is alive: no
\* continuation of an interrupted start sequence re-creates any of them or
\* moves the state out of idle.
C12_HangupEffective ==
    panel.hungUp =>
        /\ panel.callState = "idle"
        /\ panel.pcRef = 0
        /\ panel.wsRef = 0
        /\ panel.localCameraStreamRef = 0
        /\ panel.localScreenStreamRef = 0
        /\ panel.pendingSignalsRef = <<>>
        /\ panel.sessionId = 0
        /\ LivePeers = {}
        /\ LiveTracks = {}
        /\ OpenSockets = {}

\* C13 - a hangup envelope delivered to the controller, in whatever state,
\* leaves it idle with no local stream and no live track, no peer connection,
\* the signaling socket closed, the pending queue empty and no session id.
C13_HangupReceived ==
    [][\A k \in Starts :
          SocketMessage(k, HangupEnvelope("agent"), TRUE) =>
              /\ panel'.callState = "idle"
              /\ panel'.localCameraStreamRef = 0
              /\ panel'.localScreenStreamRef = 0
              /\ \A j \in Starts : panel'.camera[j] # "live" /\ panel'.screen[j] # "live"
              /\ panel'.pcRef = 0
              /\ \A j \in Starts : ~Live(panel', j)
              /\ panel'.wsRef = 0
              /\ panel'.socket[k] \notin {"CONNECTING", "OPEN"}
              /\ panel'.pendingSignalsRef = <<>>
              /\ panel'.sessionId = 0]_vars

\* the warning of :476-478
ScreenWarning == "Screen sharing is not available"

\* C15 - when createScreenStream throws, the start sequence does not enter
\* the error state: it records the warning, schedules its clearing, sets
\* callState to connecting and opens the signaling socket, with the peer
\* connection and the camera tracks as they were and no screen track.
C15_ScreenShareOptional ==
    [][\A k \in Starts :
          ScreenSettled(k, FALSE) =>
              /\ panel'.callState = "connecting"
              /\ panel'.callError = ScreenWarning
              /\ panel'.timers = panel.timers + 1
              /\ panel'.socket[k] = "CONNECTING"
              /\ panel'.wsRef = k
              /\ panel'.peer = panel.peer
              /\ panel'.pcRef = panel.pcRef
              /\ panel'.camera = panel.camera
              /\ panel'.screen[k] = "none"]_vars

\* a session without screen stream is connected on its camera tracks, the
\* warning still shown
C15_Witness ==
    \E k \in Starts :
        /\ panel.callState = "connected"
        /\ panel.pcRef = k
        /\ panel.peer[k] = "connected"
        /\ panel.camera[k] = "live"
        /\ panel.screen[k] = "none"
        /\ panel.localScreenStreamRef = 0
        /\ panel.callError = ScreenWarning

\* Nothing is pending in the controller: no start sequence awaits a result,
\* no timer is set, no offer is in the making, no socket has a handler left
\* to call and no peer connection is open.  Only the user can act.
AtRest ==
    /\ \A k \in Starts : panel.start[k] \in {"none", "done"}
    /\ panel.timers = 0
    /\ \A k \in Starts : panel.offerOp[k] = "none"
    /\ \A k \in Starts : panel.socket[k] \in {"none", "CLOSED"}
    /\ \A k \in Starts : ~Live(panel, k)

\* C16: a session always returns the controller to idle after cleanup,
\* whether it ended by hangup or by a fatal error: idle is the only state in
\* which the controller can rest.
C16_RestsOnlyInIdle ==
    (panel.started > 0 /\ AtRest) => panel.callState = "idle"

\* C17: whenever the controller is in the error state its reason string is
\* recorded (callError is not null), for as long as it stays in that state,
\* also when the fatal error occurs while the timer that clears the
\* screen-sharing warning is pending.
C17_ErrorHasReason ==
    panel.callState = "error" => panel.callError # NoError

(***************************************************************************)
(* Properties of the ticket broker.                                        *)
(***************************************************************************)
\* the dashboard sockets that are connected and open
OpenDashboards == { d \in Dashboards : dashReady[d] = "OPEN" }

\* the positions of brokerOut at which `message` is sent to dashboard d
SendsTo(d, message) ==
    { i \in 1..Len(brokerOut) : brokerOut[i] = Sent(d, message) }

\* C18: a POST /api/ticket whose body is a ticket with an id yields, before
\* the HTTP response is written, one new_ticket message carrying that ticket
\* id to every dashboard socket that is connected and open at that moment
\* (and brokerOut holds nothing else).
C18_NewTicketBroadcast ==
    (brokerOp.op = "end" /\ brokerOp.doc.json = "object" /\ brokerOp.doc.idType = "string")
        => LET n == Len(brokerOut)
           IN  /\ n = Cardinality(OpenDashboards) + 1
               /\ brokerOut[n] = Response(brokerOp.req, 200, "true")
               /\ \A d \in OpenDashboards :
                      \E i \in 1..(n - 1) :
                          /\ brokerOut[i].kind = "send"
                          /\ brokerOut[i].to = d
                          /\ brokerOut[i].msg.type = "new_ticket"
                          /\ brokerOut[i].msg.ticket.id = brokerOp.doc.id
                          /\ brokerOut[i].msg.ticket = brokerOp.doc

\* a full ticket with an id has been posted while two dashboards were open,
\* one was closing and still in the Set
C18_Witness ==
    /\ brokerOp.op = "end"
    /\ brokerOp.doc.id = "t1"
    /\ Cardinality(OpenDashboards) = 2
    /\ \E i \in 1..Len(clients) : dashReady[clients[i]] = "CLOSING"
    /\ Len(brokerOut) = 3
    /\ brokerOut[1].msg.type = "new_ticket"

\* C19: SubmitTicket returns success for every body that parses as JSON,
\* whatever fields it has or lacks; a ticket submitted without an id is
\* assigned one, is timestamped and is broadcast as new_ticket.
C19_ParsedAccepted ==
    (brokerOp.op = "end" /\ brokerOp.doc.json \notin {"empty", "malformed"})
        => /\ \E i \in 1..Len(brokerOut) : brokerOut[i] = Response(brokerOp.req, 200, "true")
           /\ (brokerOp.doc.json = "object" /\ brokerOp.doc.idType = Absent)
                 => \A d \in OpenDashboards :
                       \E i \in 1..Len(brokerOut) :
                           /\ brokerOut[i].kind = "send"
                           /\ brokerOut[i].to = d
                           /\ brokerOut[i].msg.type = "new_ticket"
                           /\ brokerOut[i].msg.ticket.id # Absent
                           /\ brokerOut[i].msg.ticket.timestamp # Absent

\* C20: every update_ticket_status message received from a connected
\* dashboard is re-broadcast as update_ticket with the same ticketId and
\* status to all connected dashboards, the sender included, once each, and to
\* no dashboard that has disconnected.
C20_StatusRebroadcast ==
    (/\ brokerOp.op = "message"
     /\ brokerOp.frame.type = "update_ticket_status"
     /\ brokerOp.frame.idType = "string")
        => LET update == UpdateTicket(brokerOp.frame.ticketId, brokerOp.frame.status)
           IN  /\ \A d \in OpenDashboards : Cardinality(SendsTo(d, update)) = 1
               /\ SendsTo(brokerOp.dash, update) # {}
               /\ \A i \in 1..Len(brokerOut) :
                      /\ brokerOut[i].kind = "send"
                      /\ brokerOut[i].msg = update
                      /\ dashReady[brokerOut[i].to] = "OPEN"
                      /\ \E j \in 1..Len(clients) : clients[j] = brokerOut[i].to

\* a dashboard has sent a status update while another was open and a third
\* had disconnected
C20_Witness ==
    /\ brokerOp.op = "message"
    /\ brokerOp.frame.type = "update_ticket_status"
    /\ brokerOp.frame.ticketId = "t1"
    /\ Cardinality(OpenDashboards) = 2
    /\ \E d \in Dashboards : dashReady[d] = "CLOSED"
    /\ Len(brokerOut) = 2

(***************************************************************************)
(* Properties of a call.                                                   *)
(***************************************************************************)
\* the next envelope for the role's handler is a hangup of the peer that has
\* ended the established call: the frame it wrote, relayed, or the hangup
\* the server writes when its connection detaches
HangupOfEnder(role) ==
    /\ net.ender = Other(role)
    /\ net.down[role] # <<>>
    /\ Head(net.down[role]).type = "hangup"
    /\ Head(net.down[role]).senderRole = net.ender

\* both controllers are idle with their peer resources closed
BothDropped(p, a) ==
    /\ p.callState = "idle"
    /\ a.callState = "idle"
    /\ p.pcRef = 0
    /\ a.pcRef = 0
    /\ \A k \in Starts : ~Live(p, k) /\ p.camera[k] # "live" /\ p.screen[k] # "live"
    /\ \A j \in Joins : ~AgentLive(a, j) /\ a.tracks[j] # "live"

\* C14: after End session or Hang up on either side of an established call
\* both peers drop: once a resulting hangup frame is delivered to the other
\* side, the requester's and the agent's controller are both idle with their
\* peer resources closed.
C14_BothPeersDrop ==
    [][/\ (HangupOfEnder("vtm") /\ \E applies \in BOOLEAN : CallPanelMessage(applies))
             => BothDropped(panel', agent')
       /\ (HangupOfEnder("agent") /\ CallAgentMessage)
             => BothDropped(panel', agent')]_vars

(***************************************************************************)
(* Properties of the registry and of the envelopes the server writes.      *)
(***************************************************************************)
\* C25: every envelope the signaling server sends to a client carries a
\* senderRole field.
C25_SenderRoleOnEveryEnvelope ==
    \A i \in 1..Len(lastSends) : lastSends[i].env.senderRole # Absent

\* the session objects whose participant Map holds connection c
SessionsOf(c) == { s \in SessionIds : c \in Range(participants[s]) }

\* C27: at every moment each participant with an attached signaling
\* connection belongs to exactly one session, and the id of that session is
\* in the registry.
C27_OneRegisteredSession ==
    \A c \in Conns :
        (connState[c] = "attached" /\ readyState[c] = "OPEN") =>
            /\ SessionsOf(c) = {connObject[c]}
            /\ connSession[c] \in sessions

\* C28: only participants with the role vtm or agent are ever attached, and
\* no relayed envelope carries another senderRole.
C28_OnlyTheTwoRoles ==
    /\ \A c \in Conns : connState[c] = "attached" => connRole[c] \in Roles
    /\ TurnRelayed =>
          \A i \in 1..Len(lastSends) : lastSends[i].env.senderRole \in Roles

\* C29: at no time does a session have two attached participants with the
\* same role.
C29_OneParticipantPerRole ==
    \A s \in SessionIds :
        \A c, d \in AttachedTo(s) : c # d => connRole[c] # connRole[d]

\* C26: POST /sessions returns an id that is not in the registry, registers it
\* with an empty participant Map, and leaves every session of the registry
\* and its participants as they were.
C26_FreshSession ==
    [][lastOp'.op = "create" =>
          /\ lastOp'.sid \notin sessions
          /\ sessions' = sessions \cup {lastOp'.sid}
          /\ participants'[sessionAt'[lastOp'.sid]] = <<>>
          /\ \A s \in sessions :
                /\ sessionAt'[s] = sessionAt[s]
                /\ participants'[sessionAt'[s]] = participants[sessionAt[s]]]_vars

(***************************************************************************)
(* Properties of the annotation overlay.                                   *)
(***************************************************************************)
\* the ids of the entries of a collection
IdsOf(collection) == { collection[i].id : i \in 1..Len(collection) }

\* the overlay has just handled a message of the kind
Handled(kind) ==
    /\ overlayOp.op = "message"
    /\ overlayOp.message.json = "object"
    /\ overlayOp.message.kind = kind

\* C22: an annotation received with ttlMs = T (20000 ms when omitted) at t0 is
\* in the collection at t0 + T/2 - neither the sweep nor the passing of time
\* removes it by then - and is not in the collection at any time after t0 + T.
C22_AnnotationLifetime ==
    [][/\ (Handled("annotation"))' =>
             \E i \in 1..Len(annotations') :
                /\ annotations'[i].id = overlayOp'.message.id
                /\ annotations'[i].createdAt = now'
                /\ annotations'[i].ttlMs =
                      IF overlayOp'.message.ttlMs = <<>> THEN 40
                      ELSE overlayOp'.message.ttlMs[1]
       /\ overlayOp'.op \in {"sweep", "time"} =>
             \A i \in 1..Len(annotations) :
                2 * (now' - annotations[i].createdAt) <= annotations[i].ttlMs =>
                   annotations[i] \in Range(annotations')
       /\ \A i \in 1..Len(annotations') :
             now' - annotations'[i].createdAt <= annotations'[i].ttlMs]_vars

\* C23: a clear message with a targetId removes the annotation with that id
\* and leaves every other annotation as it was; a clear message without a
\* targetId removes all annotations.
C23_ClearRemoves ==
    Handled("clear") =>
        LET targetId == overlayOp.message.targetId
            prev == overlayOp.prev
        IN  IF targetId = Absent THEN annotations = <<>>
            ELSE /\ \A i \in 1..Len(prev) :
                       prev[i].id # targetId => prev[i] \in Range(annotations)
                 /\ \A i \in 1..Len(annotations) :
                       annotations[i].id # targetId /\ annotations[i] \in Range(prev)
                 /\ Len(annotations) =
                       Len(prev) - (IF targetId \in IdsOf(prev) THEN 1 ELSE 0)

C23_Witness ==
    /\ Handled("clear")
    /\ overlayOp.message.targetId = "a"
    /\ IdsOf(overlayOp.prev) = {"a", "b"}
    /\ IdsOf(annotations) = {"b"}

\* C24: the collection holds at most one entry per annotation id; an
\* annotation message whose id is in the collection replaces the earlier
\* entry by the later message, and leaves the set of ids as it was.
C24_LastWriteWins ==
    /\ \A i, j \in 1..Len(annotations) :
          annotations[i].id = annotations[j].id => i = j
    /\ Handled("annotation") =>
          /\ \E i \in 1..Len(annotations) :
                /\ annotations[i].id = overlayOp.message.id
                /\ annotations[i].shape = overlayOp.message.shape
                /\ annotations[i].createdAt = now
          /\ overlayOp.message.id \in IdsOf(overlayOp.prev) =>
                IdsOf(annotations) = IdsOf(overlayOp.prev)
          /\ \A i \in 1..Len(overlayOp.prev) :
                overlayOp.prev[i].id # overlayOp.message.id =>
                   overlayOp.prev[i] \in Range(annotations)

C24_Witness ==
    /\ Handled("annotation")
    /\ overlayOp.message.id = "a"
    /\ overlayOp.message.shape = "arrow"
    /\ \E i \in 1..Len(overlayOp.prev) :
          /\ overlayOp.prev[i].id = "a"
          /\ overlayOp.prev[i].shape = "circle"
          /\ overlayOp.prev[i].createdAt < now
    /\ IdsOf(annotations) = {"a", "b"}

(***************************************************************************)
(* Properties of the dashboards.                                           *)
(***************************************************************************)
\* the place of a status in the lifecycle pending -> in-progress -> resolved
Rank(status) ==
    IF status = RESOLVED THEN 3 ELSE IF status = IN_PROGRESS THEN 2 ELSE 1

\* C30: a ticket's status only moves forward through pending, in-progress,
\* resolved: no step of a dashboard (a button of the modal, a message of
\* the broker) gives a ticket that the dashboard shows a status that comes
\* before the one it showed.
C30_StatusMovesForward ==
    [][\A d \in Dashboards : \A i \in 1..Len(tickets[d]) : \A j \in 1..Len(tickets'[d]) :
          tickets'[d][j].id = tickets[d][i].id
              => Rank(tickets'[d][j].status) >= Rank(tickets[d][i].status)]_vars

\* a dashboard whose socket is open at both ends
Connected(d) ==
    /\ websocket[d] = "OPEN"
    /\ dashReady[d] = "OPEN"
    /\ ~wire.cut[d]

\* nothing is in flight: no frame or message on a wire, no request that
\* the broker is still receiving, no joinSession awaited, and both ends of
\* a broken connection have had their 'close'
Delivered ==
    /\ \A d \in Dashboards :
          /\ wire.up[d] = <<>> /\ wire.down[d] = <<>>
          /\ joining[d] = Absent
          /\ wire.cut[d] => websocket[d] = "CLOSED" /\ dashReady[d] = "CLOSED"
          /\ websocket[d] # "CONNECTING"
    /\ \A r \in Requests : requests[r].state # "receiving"

\* the statuses dashboard d shows for ticket id
Shown(d, id) == { tickets[d][i].status : i \in { k \in 1..Len(tickets[d]) : tickets[d][k].id = id } }

\* C21: ticket status stays synchronized across dashboards: once all
\* in-flight messages are delivered, every connected dashboard that holds a
\* ticket shows the same status for it, whatever updates the dashboards
\* have issued (concurrently, or while a socket was not open).
C21_StatusSynchronized ==
    Delivered =>
        \A d1 \in Dashboards, d2 \in Dashboards :
            Connected(d1) /\ Connected(d2) =>
                \A id \in {TicketNames[r] : r \in 1..MaxTickets} :
                    Shown(d1, id) # {} /\ Shown(d2, id) # {} =>
                        /\ Shown(d1, id) = Shown(d2, id)
                        /\ Cardinality(Shown(d1, id)) = 1

\* both dashboards are connected and show the ticket resolved after all
\* three buttons have been pressed and everything is delivered
C21_Witness ==
    /\ Delivered
    /\ clicks = MaxClicks
    /\ \A d \in 1..MaxDesks : Connected(d) /\ Shown(d, TicketNames[1]) = {RESOLVED}

(***************************************************************************)
(* Detach, DeleteSession and the relay filter of the signaling server.     *)
(***************************************************************************)
\* the step is the turn of a 'close' or 'error' event of connection c
DetachEvent(c) ==
    /\ lastOp = NoOp
    /\ lastOp'.op \in {"close", "error"}
    /\ lastOp'.conn = c

\* C32: for each attached connection the detach work runs exactly once, also
\* when an error and a close event both fire for it: the first event stops
\* the heartbeat timer, takes the connection out of its session and sends
\* one hangup to every remaining participant whose socket is open; a later
\* event changes and sends nothing; and no heartbeat is sent on the
\* connection once it has detached.
C32_DetachOnce ==
    [][\A c \in Conns :
          /\ DetachEvent(c) /\ connState[c] = "attached" =>
                LET remaining == { p \in Range(participants'[connObject[c]]) :
                                      readyState'[p] = "OPEN" }
                IN  /\ heartbeat[c] /\ ~heartbeat'[c]
                    /\ c \in Range(participants[connObject[c]])
                    /\ c \notin Range(participants'[connObject[c]])
                    /\ connState'[c] = "detached"
                    /\ { lastSends'[i].to : i \in 1..Len(lastSends') } = remaining
                    /\ Len(lastSends') = Cardinality(remaining)
                    /\ \A i \in 1..Len(lastSends') :
                          lastSends'[i].env = HangupEnvelope(connRole[c])
          /\ DetachEvent(c) /\ connState[c] = "detached" =>
                /\ participants' = participants
                /\ sessions' = sessions
                /\ heartbeat' = heartbeat
                /\ lastSends' = <<>>
          /\ connState[c] = "detached" =>
                /\ ~heartbeat'[c]
                /\ \A i \in 1..Len(lastSends') : lastSends'[i].to # c]_vars

\* the same, for the detaches of a session that is in the registry
C32_DetachOnceRegistered ==
    [][\A c \in Conns :
          /\ DetachEvent(c) /\ connState[c] = "attached" =>
                LET remaining == { p \in Range(participants'[connObject[c]]) :
                                      readyState'[p] = "OPEN" }
                IN  /\ heartbeat[c] /\ ~heartbeat'[c]
                    /\ c \in Range(participants[connObject[c]])
                    /\ c \notin Range(participants'[connObject[c]])
                    /\ connState'[c] = "detached"
                    /\ connSession[c] \in sessions =>
                          /\ { lastSends'[i].to : i \in 1..Len(lastSends') } = remaining
                          /\ Len(lastSends') = Cardinality(remaining)
                          /\ \A i \in 1..Len(lastSends') :
                                lastSends'[i].env = HangupEnvelope(connRole[c])
          /\ DetachEvent(c) /\ connState[c] = "detached" =>
                /\ participants' = participants
                /\ sessions' = sessions
                /\ heartbeat' = heartbeat
                /\ lastSends' = <<>>
          /\ connState[c] = "detached" =>
                /\ ~heartbeat'[c]
                /\ \A i \in 1..Len(lastSends') : lastSends'[i].to # c]_vars

\* C33: DeleteSession is idempotent.  A DELETE of an id that is not in the
\* registry answers 404 and leaves the registry and the participants as
\* they are; a DELETE of an id that is in the registry answers 204 and
\* takes out that id and no other; after either the id is absent, so that
\* a second DELETE of it is one of the first kind.
C33_DeleteIdempotent ==
    [][\A id \in SessionIds :
          (lastOp = NoOp /\ lastOp'.op = "delete" /\ lastOp'.sid = id) =>
              /\ id \notin sessions =>
                    /\ lastOp'.status = 404
                    /\ sessions' = sessions
              /\ id \in sessions =>
                    /\ lastOp'.status = 204
                    /\ sessions' = sessions \ {id}
              /\ id \notin sessions'
              /\ UNCHANGED <<sessionAt, participants, connState, connSession, heartbeat>>
              /\ lastSends' = <<>>]_vars

\* the second DELETE of a session that had a participant attached when the
\* first removed it: answered 404, the other session still registered
C33_Witness ==
    /\ lastOp.op = "delete"
    /\ lastOp.status = 404
    /\ lastOp.sid <= nextSession
    /\ lastOp.sid \notin emptied
    /\ participants[lastOp.sid] # <<>>
    /\ sessions # {}

\* C39: a client frame whose type is peer-update, heartbeat, error or
\* anything else than offer, answer, ice, hangup or peer-ready (a type that
\* is missing included) is relayed to no participant, and the registry,
\* the participants and the connections are after it as they were.
C39_OnlySignalingKindsRelayed ==
    [][(/\ lastOp = NoOp
        /\ lastOp'.op = "message"
        /\ lastOp'.frame.json = "object"
        /\ lastOp'.frame.type \notin SignalingKinds) =>
           /\ lastSends' = <<>>
           /\ UNCHANGED <<sessions, sessionAt, participants, readyState, connState,
                          connSession, connObject, connRole, listeners, heartbeat>>]_vars

\* a participant of a session in which another participant is attached with
\* an open socket has written a peer-update frame
C39_Witness ==
    /\ lastOp.op = "message"
    /\ lastOp.frame.type = "peer-update"
    /\ lastSends = <<>>
    /\ TurnSession \in sessions
    /\ OpenOthers(TurnSession, TurnConn) # {}

(***************************************************************************)
(* The call state of the requester's controller.                           *)
(***************************************************************************)
\* the changes of callState that the state machine of the controller has:
\* start, media acquired, remote connected, fatal failure, hangup
Transition(from, to) ==
    \/ from \in {"idle", "error"} /\ to = "preparing"
    \/ from = "preparing" /\ to = "connecting"
    \/ from = "connecting" /\ to = "connected"
    \/ to = "error"
    \/ to = "idle"

\* C31: the call state of the requester's controller changes only along
\* idle or error -> preparing, preparing -> connecting, connecting ->
\* connected, any state -> error and any state -> idle (a disconnected peer
\* leaves connecting as it is); connected is entered only from connecting.
C31_CallStateTransitions ==
    [][panel'.callState # panel.callState
          => Transition(panel.callState, panel'.callState)]_vars

\* session k of the requester's controller has been torn down: its socket
\* has been created and is not the controller's socket any more, its start
\* sequence is over and its peer connection is closed
TornDown(k) ==
    /\ panel.socket[k] # "none"
    /\ panel.wsRef # k
    /\ panel.start[k] = "done"
    /\ ~Live(panel, k)

\* an event of signaling socket k: a message, or its close
SocketEvent(k) ==
    \/ \E message \in ServerEnvelopes, applies \in BOOLEAN : SocketMessage(k, message, applies)
    \/ SocketClosed(k)

\* C36: once the controller has torn down session k and has started a
\* later one, no message and no close event of the signaling socket of
\* session k changes the call state, the peer connections, the media or
\* the error reason.
C36_StaleSocketEvents ==
    [][\A k \in Starts :
          (TornDown(k) /\ panel.started > k /\ SocketEvent(k)) =>
              /\ panel'.callState = panel.callState
              /\ panel'.pcRef = panel.pcRef
              /\ panel'.peer = panel.peer
              /\ panel'.localCameraStreamRef = panel.localCameraStreamRef
              /\ panel'.localScreenStreamRef = panel.localScreenStreamRef
              /\ panel'.camera = panel.camera
              /\ panel'.screen = panel.screen
              /\ panel'.callError = panel.callError]_vars

\* C40: the controller owns at most one live peer connection and at most
\* one signaling socket at any time: of the peer connections it has built
\* at most one is not closed, and of the sockets it has created at most one
\* is connecting or open (so that a start never adds a second one, and a
\* peer connection that is replaced in pcRef has been closed).
C40_OnePeerOneSocket ==
    /\ Cardinality(LivePeers) <= 1
    /\ Cardinality(OpenSockets) <= 1

\* C38: every annotation is out of the collection no later than its ttlMs
\* plus one period of the sweep after it was received, whatever else
\* arrives meanwhile: no entry of the collection is older than that.
C38_RemovedWithinSweepPeriod ==
    \A i \in 1..Len(annotations) :
        now - annotations[i].createdAt <= annotations[i].ttlMs + SweepPeriod

(***************************************************************************)
(* Properties of the offer in the call of the two controllers.             *)
(***************************************************************************)
\* the next envelope of the role's socket is of the given type, from its peer
NextFromPeer(role, type) ==
    /\ net.down[role] # <<>>
    /\ Head(net.down[role]).type = type
    /\ Head(net.down[role]).senderRole = Other(role)

\* the agent's join has been given an offer already: its handler is applying
\* one or has answered one
OfferTaken == agent.answering[1] > 0 \/ agent.peer[1] = "answered"

\* C35: the late-join re-send never duplicates an offer: for one agent join
\* the agent is delivered the requester's offer exactly once, and the
\* requester never receives an answer on a peer connection that has been
\* given its answer already.
C35_OfferDeliveredOnce ==
    [][/\ (NextFromPeer("agent", "offer") /\ CallAgentMessage) => ~OfferTaken
       /\ (NextFromPeer("vtm", "answer") /\ \E applies \in BOOLEAN : CallPanelMessage(applies))
             => ~HasRemote(panel, 1)]_vars

\* The browsers' event loops and the server's run every step that is ready:
\* the requester's socket opens once the server has accepted it, createOffer
\* and setLocalDescription settle, a socket hands its handler what the server
\* has written, and the server reads the frames it is sent.
CallFairness ==
    /\ WF_vars(Accepted("vtm") /\ SocketOpen(1) /\ PanelTask /\ UNCHANGED restOfCall)
    /\ WF_vars(OfferCreated(1) /\ PanelTask /\ UNCHANGED restOfCall)
    /\ WF_vars(LocalDescriptionSet(1) /\ PanelTask /\ UNCHANGED restOfCall)
    /\ WF_vars(/\ net.down["vtm"] # <<>>
               /\ \E applies \in Settles(Head(net.down["vtm"])) : CallPanelMessage(applies)
               /\ UNCHANGED restOfCall)
    /\ WF_vars(ServerFrame("vtm") /\ UNCHANGED restOfCall)
    /\ WF_vars(ServerFrame("agent") /\ UNCHANGED restOfCall)
    /\ WF_vars(ServerDetach("vtm") /\ UNCHANGED restOfCall)
    /\ WF_vars(ServerDetach("agent") /\ UNCHANGED restOfCall)

\* The call of the two controllers with the steps that are ready being run.
SpecCallFair == Init /\ [][NextCall]_vars /\ CallFairness

\* the server has written an offer to the agent's socket
OfferAtAgent ==
    \E i \in 1..Len(net.down["agent"]) :
        /\ net.down["agent"][i].type = "offer"
        /\ net.down["agent"][i].senderRole = "vtm"

\* the requester has sent as many signals as the model follows
SignalsSpent == panel.signals >= MaxSignals

\* C34: in a session whose requester stays attached, an agent that attaches
\* and stays is eventually sent at least one offer, whether its attach
\* reaches the server before or after the requester's first offer does.
C34_AgentEventuallySentOffer ==
    (<>[](net.attached["vtm"]) /\ <>[](net.attached["agent"]))
        => <>(OfferAtAgent \/ SignalsSpent)

\* the agent has attached after the server had read the requester's first
\* offer, and the offer that was sent again is the first the server writes
\* to the agent
C34_Witness ==
    /\ net.attached["vtm"] /\ net.attached["agent"]
    /\ panel.signals = 2
    /\ net.up["vtm"] = <<>>
    /\ Len(net.down["agent"]) = 1
    /\ OfferAtAgent
    /\ agent.pcRef = 1
    /\ ~OfferTaken

\* every frame that was sent has been delivered and the server has seen every
\* connection that has closed
AllDelivered ==
    \A role \in Roles :
        /\ net.up[role] = <<>>
        /\ net.down[role] = <<>>
        /\ net.attached[role] => ClientSocket(panel, agent, role) \in {"CONNECTING", "OPEN"}

\* C37: after either peer has hung up an established call and all resulting
\* frames are delivered, no participant of the session is attached and the
\* session is no longer in the registry.
C37_SessionRemovedAfterHangup ==
    (net.ender # "none" /\ AllDelivered) =>
        /\ \A role \in Roles : ~net.attached[role]
        /\ net.session = "gone"

====
